---------------------------- MODULE Spec2Model ----------------------------
(***************************************************************************)
(* StudyGenie backend: the AI routes of backend/server.js, the Puter       *)
(* client they call (backend/puterClient.js, lines 1-163) and the older    *)
(* direct-provider server kept in the same file (puterClient.js, lines     *)
(* 165-622); further down, OpenRouterClient (unnamed/part_000), the        *)
(* PuterClient methods as their caller sees them, GET /history, the        *)
(* breathing timer and the App of the frontend, POST /auth/signup and the  *)
(* middleware in front of the protected routes.                            *)
(*                                                                         *)
(* JavaScript strings are TLA+ strings (TLC evaluates Len, \o and SubSeq   *)
(* on them), so toLowerCase, includes, JSON.stringify and JSON.parse are   *)
(* computed character by character on the texts of the source.            *)
(* SANY reads ASCII only: the one non-ASCII character of the texts         *)
(* modelled here, the emoji U+1F31F that ends the support text of          *)
(* generateSmartResponse, is written "(U+1F31F)".                          *)
(***************************************************************************)
EXTENDS Integers, Sequences, FiniteSets, TLC

(***************************************************************************)
(* JavaScript values.  Every value is a record [k, v] whose kind k is      *)
(* compared first; an object keeps its members as a sequence of            *)
(* <<key, value>> pairs in insertion order, a number keeps its JSON text.  *)
(***************************************************************************)
Str(s) == [k |-> "str", v |-> s]
Num(t) == [k |-> "num", v |-> t]
Bool(b) == [k |-> "bool", v |-> b]
Arr(items) == [k |-> "arr", v |-> items]
Obj(members) == [k |-> "obj", v |-> members]
Null == [k |-> "null", v |-> "null"]
Undefined == [k |-> "undef", v |-> "undefined"]

IsStr(x) == x.k = "str"
IsObj(x) == x.k = "obj"

\* x.key for a value other than null and undefined: the member of that name
\* (the last, should the name repeat), undefined where there is none
Field(x, key) ==
  IF ~IsObj(x) THEN Undefined
  ELSE LET hits == {i \in 1..Len(x.v) : x.v[i][1] = key}
       IN  IF hits = {} THEN Undefined
           ELSE x.v[CHOOSE i \in hits : \A j \in hits : j <= i][2]

\* the own keys of a value, as a set (empty for anything but an object)
Keys(x) == IF IsObj(x) THEN {x.v[i][1] : i \in 1..Len(x.v)} ELSE {}

\* JavaScript truthiness, as the || chain of PuterClient.chat uses it
Truthy(x) ==
  CASE x.k = "undef" -> FALSE
    [] x.k = "null" -> FALSE
    [] x.k = "str" -> x.v # ""
    [] x.k = "num" -> x.v \notin {"0", "-0"}
    [] x.k = "bool" -> x.v
    [] OTHER -> TRUE

(***************************************************************************)
(* Text.                                                                   *)
(***************************************************************************)
CharAt(s, i) == SubSeq(s, i, i)

Min(a, b) == IF a < b THEN a ELSE b

LowerOf(c) ==
  CASE c = "A" -> "a" [] c = "B" -> "b" [] c = "C" -> "c" [] c = "D" -> "d"
    [] c = "E" -> "e" [] c = "F" -> "f" [] c = "G" -> "g" [] c = "H" -> "h"
    [] c = "I" -> "i" [] c = "J" -> "j" [] c = "K" -> "k" [] c = "L" -> "l"
    [] c = "M" -> "m" [] c = "N" -> "n" [] c = "O" -> "o" [] c = "P" -> "p"
    [] c = "Q" -> "q" [] c = "R" -> "r" [] c = "S" -> "s" [] c = "T" -> "t"
    [] c = "U" -> "u" [] c = "V" -> "v" [] c = "W" -> "w" [] c = "X" -> "x"
    [] c = "Y" -> "y" [] c = "Z" -> "z" [] OTHER -> c

\* String.prototype.toLowerCase, by halves so that the recursion stays shallow
RECURSIVE toLowerCase(_)
toLowerCase(s) ==
  IF Len(s) = 0 THEN s
  ELSE IF Len(s) = 1 THEN LowerOf(s)
  ELSE LET h == Len(s) \div 2
       IN  toLowerCase(SubSeq(s, 1, h)) \o toLowerCase(SubSeq(s, h + 1, Len(s)))

\* whether the text holds word at position i
StartsAt(s, i, word) ==
  i + Len(word) - 1 <= Len(s) /\ SubSeq(s, i, i + Len(word) - 1) = word

\* String.prototype.includes
includes(s, needle) ==
  \E i \in 1..(Len(s) - Len(needle) + 1) : SubSeq(s, i, i + Len(needle) - 1) = needle

(***************************************************************************)
(* JSON.stringify.                                                         *)
(***************************************************************************)
EscapeChar(c) ==
  CASE c = "\"" -> "\\\""
    [] c = "\\" -> "\\\\"
    [] c = "\n" -> "\\n"
    [] OTHER -> c

RECURSIVE Escape(_)
Escape(s) ==
  IF Len(s) = 0 THEN s
  ELSE IF Len(s) = 1 THEN EscapeChar(s)
  ELSE LET h == Len(s) \div 2
       IN  Escape(SubSeq(s, 1, h)) \o Escape(SubSeq(s, h + 1, Len(s)))

Quote(s) == "\"" \o Escape(s) \o "\""

RECURSIVE JoinComma(_)
JoinComma(parts) ==
  IF parts = <<>> THEN ""
  ELSE IF Len(parts) = 1 THEN parts[1]
  ELSE parts[1] \o "," \o JoinComma(Tail(parts))

RECURSIVE StringifyText(_)
\* the text JSON.stringify gives for a value other than undefined; an undefined
\* member of an object is left out and an undefined item of an array is null
StringifyText(x) ==
  CASE x.k = "str" -> Quote(x.v)
    [] x.k = "num" -> x.v
    [] x.k = "bool" -> IF x.v THEN "true" ELSE "false"
    [] x.k = "null" -> "null"
    [] x.k = "undef" -> "null"
    [] x.k = "arr" ->
         "[" \o JoinComma([i \in 1..Len(x.v) |-> StringifyText(x.v[i])]) \o "]"
    [] x.k = "obj" ->
         LET kept == SelectSeq(x.v, LAMBDA m : m[2].k # "undef")
         IN  "{" \o JoinComma([i \in 1..Len(kept) |->
                      Quote(kept[i][1]) \o ":" \o StringifyText(kept[i][2])]) \o "}"

\* JSON.stringify: undefined for undefined, else a string
JSONstringify(x) == IF x.k = "undef" THEN Undefined ELSE Str(StringifyText(x))

\* `${x}` of a template literal
RECURSIVE ToText(_)
ToText(x) ==
  CASE x.k = "str" -> x.v
    [] x.k = "num" -> x.v
    [] x.k = "bool" -> IF x.v THEN "true" ELSE "false"
    [] x.k = "null" -> "null"
    [] x.k = "undef" -> "undefined"
    [] x.k = "arr" -> JoinComma([i \in 1..Len(x.v) |->
                       IF x.v[i].k \in {"null", "undef"} THEN "" ELSE ToText(x.v[i])])
    [] x.k = "obj" -> "[object Object]"

(***************************************************************************)
(* JSON.parse: a recursive-descent parser of objects, arrays, strings,     *)
(* numbers, true, false and null.  A parse gives [ok, v, next]: whether a  *)
(* value was read, the value, and the position after it.  Of the string    *)
(* escapes, \" \\ \/ \n \t \r are read; \b, \f and \uXXXX occur in no text  *)
(* of the model and are refused.                                           *)
(***************************************************************************)
NoParse == [ok |-> FALSE, v |-> Undefined, next |-> 0]
Parsed(x, n) == [ok |-> TRUE, v |-> x, next |-> n]

Digits == {"0", "1", "2", "3", "4", "5", "6", "7", "8", "9"}
WhiteSpace == {" ", "\n", "\t", "\r"}

RECURSIVE SkipWs(_, _)
SkipWs(s, i) ==
  IF i <= Len(s) /\ CharAt(s, i) \in WhiteSpace THEN SkipWs(s, i + 1) ELSE i

RECURSIVE SkipDigits(_, _)
SkipDigits(s, i) ==
  IF i <= Len(s) /\ CharAt(s, i) \in Digits THEN SkipDigits(s, i + 1) ELSE i

Unescape(c) ==
  CASE c = "n" -> "\n" [] c = "t" -> "\t" [] c = "r" -> "\r" [] OTHER -> c

RECURSIVE BackslashRun(_, _)
\* how many backslashes in a row end at position j
BackslashRun(s, j) ==
  IF j >= 1 /\ CharAt(s, j) = "\\" THEN 1 + BackslashRun(s, j - 1) ELSE 0

RECURSIVE ClosingQuote(_, _, _)
\* the first position from i on that holds a quote no backslash escapes
\* (Len(s) + 1 when there is none), looked for in stretches of doubling width
ClosingQuote(s, i, width) ==
  IF i > Len(s) THEN Len(s) + 1
  ELSE LET hits == {j \in i..Min(Len(s), i + width - 1) :
                      CharAt(s, j) = "\"" /\ BackslashRun(s, j - 1) % 2 = 0}
       IN  IF hits = {} THEN ClosingQuote(s, i + width, 2 * width)
           ELSE CHOOSE j \in hits : \A h \in hits : j <= h

\* whether the characters between the quotes are ones JSON.parse accepts: no
\* raw control character, and after an escaping backslash one of " \ / n t r
WellEscaped(t) ==
  \A j \in 1..Len(t) :
    /\ CharAt(t, j) \notin {"\n", "\t", "\r"}
    /\ (CharAt(t, j) = "\\" /\ BackslashRun(t, j - 1) % 2 = 0)
         => (j < Len(t) /\ CharAt(t, j + 1) \in {"\"", "\\", "/", "n", "t", "r"})

RECURSIVE UnescapeText(_)
\* the characters a well-escaped text stands for, by halves that do not part
\* a backslash from the character it escapes
UnescapeText(t) ==
  IF Len(t) <= 1 THEN t
  ELSE IF Len(t) = 2 /\ CharAt(t, 1) = "\\" THEN Unescape(CharAt(t, 2))
  ELSE LET h == Len(t) \div 2
           cut == IF BackslashRun(t, h) % 2 = 1 THEN h + 1 ELSE h
       IN  UnescapeText(SubSeq(t, 1, cut)) \o UnescapeText(SubSeq(t, cut + 1, Len(t)))

\* i is the position after the opening quote, p that of the closing one
StringUpTo(s, i, p) ==
  IF p > Len(s) \/ ~WellEscaped(SubSeq(s, i, p - 1)) THEN NoParse
  ELSE Parsed(Str(UnescapeText(SubSeq(s, i, p - 1))), p + 1)

\* i is the position after the opening quote
ParseStringBody(s, i) == StringUpTo(s, i, ClosingQuote(s, i, 16))

\* i is the position of the number, f the one after it
NumberUpTo(s, i, f) == Parsed(Num(SubSeq(s, i, f - 1)), f)

\* d is the position of the first digit, e the one after the integer part
NumberFraction(s, i, d, e) ==
  IF e = d \/ (e > d + 1 /\ CharAt(s, d) = "0") THEN NoParse
  ELSE NumberUpTo(s, i, IF e + 1 <= Len(s) /\ CharAt(s, e) = "."
                             /\ CharAt(s, e + 1) \in Digits
                          THEN SkipDigits(s, e + 1) ELSE e)

NumberDigits(s, i, d) == NumberFraction(s, i, d, SkipDigits(s, d))

ParseNumber(s, i) == NumberDigits(s, i, IF CharAt(s, i) = "-" THEN i + 1 ELSE i)

RECURSIVE ParseValue(_, _)
RECURSIVE ParseMembers(_, _, _)
RECURSIVE ParseItems(_, _, _)

\* a member read: its name, its value and the position after the value and
\* the white space that follows it
NoMember == [ok |-> FALSE, name |-> "", v |-> Undefined, next |-> 0]

MemberValue(s, name, val) ==
  IF ~val.ok THEN NoMember
  ELSE [ok |-> TRUE, name |-> name, v |-> val.v, next |-> SkipWs(s, val.next)]

MemberColon(s, name, c) ==
  IF c > Len(s) \/ CharAt(s, c) # ":" THEN NoMember
  ELSE MemberValue(s, name, ParseValue(s, c + 1))

MemberName(s, key) ==
  IF ~key.ok THEN NoMember ELSE MemberColon(s, key.v.v, SkipWs(s, key.next))

MemberKey(s, a) ==
  IF a > Len(s) \/ CharAt(s, a) # "\"" THEN NoMember
  ELSE MemberName(s, ParseStringBody(s, a + 1))

\* i is the position of a member's key, white space before it aside
ParseMember(s, i) == MemberKey(s, SkipWs(s, i))

\* m is the member read, acc the members read before it
MembersAfter(s, acc, m) ==
  CASE ~m.ok \/ m.next > Len(s) -> NoParse
    [] m.ok /\ m.next <= Len(s) /\ CharAt(s, m.next) = "," ->
         ParseMembers(s, m.next + 1, Append(acc, <<m.name, m.v>>))
    [] m.ok /\ m.next <= Len(s) /\ CharAt(s, m.next) = "}" ->
         Parsed(Obj(Append(acc, <<m.name, m.v>>)), m.next + 1)
    [] OTHER -> NoParse

\* i is the position of a member's key; acc holds the members read so far
ParseMembers(s, i, acc) == MembersAfter(s, acc, ParseMember(s, i))

\* all holds the items read, e is the position after the last one and the
\* white space that follows it
ItemsSeparator(s, all, e) ==
  CASE e > Len(s) -> NoParse
    [] e <= Len(s) /\ CharAt(s, e) = "," -> ParseItems(s, e + 1, all)
    [] e <= Len(s) /\ CharAt(s, e) = "]" -> Parsed(Arr(all), e + 1)
    [] OTHER -> NoParse

\* val is the item read, acc the items read before it
ItemsAfter(s, acc, val) ==
  IF ~val.ok THEN NoParse
  ELSE ItemsSeparator(s, Append(acc, val.v), SkipWs(s, val.next))

\* i is the position of an item; acc holds the items read so far
ParseItems(s, i, acc) == ItemsAfter(s, acc, ParseValue(s, i))

\* a is the position of the value's first character c, b the position of what
\* follows it, white space aside
ValueOf(s, a, c, b) ==
  CASE c = "{" /\ ~(b <= Len(s) /\ CharAt(s, b) = "}") -> ParseMembers(s, b, <<>>)
    [] c = "[" /\ ~(b <= Len(s) /\ CharAt(s, b) = "]") -> ParseItems(s, b, <<>>)
    [] c = "{" /\ b <= Len(s) /\ CharAt(s, b) = "}" -> Parsed(Obj(<<>>), b + 1)
    [] c = "[" /\ b <= Len(s) /\ CharAt(s, b) = "]" -> Parsed(Arr(<<>>), b + 1)
    [] c = "\"" -> ParseStringBody(s, a + 1)
    [] c \in Digits \cup {"-"} -> ParseNumber(s, a)
    [] c = "n" /\ StartsAt(s, a, "null") -> Parsed(Null, a + 4)
    [] c = "t" /\ StartsAt(s, a, "true") -> Parsed(Bool(TRUE), a + 4)
    [] c = "f" /\ StartsAt(s, a, "false") -> Parsed(Bool(FALSE), a + 5)
    [] OTHER -> NoParse

ValueAt(s, a) ==
  IF a > Len(s) THEN NoParse ELSE ValueOf(s, a, CharAt(s, a), SkipWs(s, a + 1))

ParseValue(s, i) == ValueAt(s, SkipWs(s, i))

\* r is the value read at the start of the text
WholeText(text, r) ==
  IF r.ok /\ SkipWs(text, r.next) > Len(text)
    THEN [ok |-> TRUE, v |-> r.v]
    ELSE [ok |-> FALSE, v |-> Undefined]

\* JSON.parse(text): [ok |-> FALSE] stands for the SyntaxError it throws
JSONparse(text) == WholeText(text, ParseValue(text, 1))

(***************************************************************************)
(* backend/puterClient.js: the PuterClient singleton.                      *)
(***************************************************************************)
\* what evaluating an expression gives: a value, or a throw
Returned(x) == [threw |-> FALSE, v |-> x]
Thrown == [threw |-> TRUE, v |-> Undefined]

\* x[key] as JavaScript reads it: a TypeError on null and undefined, an item
\* of an array for an index, undefined where there is no such property
Member(x, key) ==
  IF x.k \in {"null", "undef"} THEN Thrown
  ELSE IF x.k = "arr" /\ key = "0" /\ Len(x.v) > 0 THEN Returned(x.v[1])
  ELSE Returned(Field(x, key))

\* the fields the constructor sets
PuterClientNew ==
  [initialized |-> TRUE, apiBaseUrl |-> "https://api.puter.com", fallbackToMock |-> FALSE]

\* the endpoints PuterClient.chat tries, in order
Endpoints(c) ==
  <<c.apiBaseUrl \o "/ai/chat", c.apiBaseUrl \o "/v1/chat/completions",
    "https://puter.com/api/ai/chat">>

\* had the client reported itself unavailable
isAvailableNever(c) == FALSE

isAvailable(c) == c.initialized

\* the object generateSmartResponse serialises for the study style / learning category
SmartStudyStyle ==
  Obj(<<
    <<"style", Str("Adaptive Visual-Kinesthetic Learner")>>,
    <<"strengths", Arr(<<
      Str("Visual processing"),
      Str("Hands-on learning"),
      Str("Pattern recognition"),
      Str("Active engagement")>>)>>,
    <<"recommendations", Arr(<<
      Str("Use mind maps and flowcharts for complex topics"),
      Str("Take frequent breaks using the Pomodoro technique"),
      Str("Practice with real-world examples and case studies"),
      Str("Use color-coding and visual organization systems"),
      Str("Engage in group discussions and peer learning")>>)>>,
    <<"summary", Str("You learn best through visual aids and hands-on activities. Your adaptive learning style allows you to switch between different approaches based on the subject matter.")>>>>)

\* the object serialised for the stress / lifestyle category
SmartStress ==
  Obj(<<
    <<"level", Str("Moderate")>>,
    <<"drivers", Arr(<<
      Str("Academic workload"),
      Str("Time management challenges"),
      Str("Social pressures"),
      Str("Future uncertainty")>>)>>,
    <<"suggestions", Arr(<<
      Str("Practice mindfulness and deep breathing exercises"),
      Str("Create a structured daily routine with buffer time"),
      Str("Break large tasks into smaller, manageable chunks"),
      Str("Maintain regular sleep schedule and exercise"),
      Str("Connect with support networks and seek help when needed")>>)>>>>)

\* the object serialised for the roadmap / course category
SmartRoadmap ==
  Obj(<<
    <<"roadmap", Arr(<<
      Obj(<<
        <<"week", Num("1")>>,
        <<"topics", Arr(<<Str("Course Foundation"), Str("Key Concepts")>>)>>,
        <<"activities", Arr(<<
          Str("Read introductory materials"),
          Str("Complete diagnostic quiz"),
          Str("Set learning goals")>>)>>>>),
      Obj(<<
        <<"week", Num("2")>>,
        <<"topics", Arr(<<Str("Core Principles"), Str("Practical Applications")>>)>>,
        <<"activities", Arr(<<Str("Practice exercises"), Str("Case study analysis"), Str("Group discussions")>>)>>>>),
      Obj(<<
        <<"week", Num("3")>>,
        <<"topics", Arr(<<Str("Advanced Topics"), Str("Integration")>>)>>,
        <<"activities", Arr(<<Str("Research project"), Str("Peer collaboration"), Str("Expert interviews")>>)>>>>),
      Obj(<<
        <<"week", Num("4")>>,
        <<"topics", Arr(<<Str("Mastery & Review"), Str("Real-world Application")>>)>>,
        <<"activities", Arr(<<Str("Final project"), Str("Comprehensive review"), Str("Portfolio development")>>)>>>>)>>)>>,
    <<"mindmap", Str("Core concepts form the foundation, branching into practical applications and advanced topics. Integration occurs through hands-on projects, leading to mastery and real-world application. Each element connects to reinforce learning and build comprehensive understanding.")>>>>)

\* the text returned for the support / coach category (its last character is U+1F31F)
SmartSupportText ==
  "I hear you, and I want you to acknowledge that seeking support shows tremendous strength and self-awareness. Academic challenges can feel overwhelming, but remember that every successful person has faced similar struggles. Take things one step at a time, celebrate small victories, and be compassionate with yourself. You have unique strengths and capabilities that will help you overcome these challenges. Consider breaking down your goals into smaller, achievable steps, and don't hesitate to reach out to mentors, peers, or counselors when you need guidance. You've got this! (U+1F31F)"

\* the default NOVA chat response
SmartNovaText ==
  "Thanks for your question! As your study assistant NOVA, I'd recommend approaching this systematically. Break down the topic into smaller, manageable parts and create a structured study plan. Use active recall techniques, spaced repetition, and connect new information to what you already know. Consider using visual aids like diagrams or mind maps, and don't forget to take regular breaks to maintain focus. Is there a specific aspect you'd like me to help you explore further?"

\* generateSmartResponse had it tested roadmap/course before stress/lifestyle
generateSmartResponseRoadmapFirst(prompt) ==
  LET lowerPrompt == toLowerCase(prompt)
  IN  IF includes(lowerPrompt, "study style") \/ includes(lowerPrompt, "learning")
        THEN StringifyText(SmartStudyStyle)
      ELSE IF includes(lowerPrompt, "roadmap") \/ includes(lowerPrompt, "course")
        THEN StringifyText(SmartRoadmap)
      ELSE IF includes(lowerPrompt, "stress") \/ includes(lowerPrompt, "lifestyle")
        THEN StringifyText(SmartStress)
      ELSE IF includes(lowerPrompt, "support") \/ includes(lowerPrompt, "coach")
        THEN SmartSupportText
      ELSE SmartNovaText

\* generateSmartResponse had its default text quoted the prompt, as the chat
\* mock of the routes quotes the message
generateSmartResponseQuotesPrompt(prompt) ==
  LET lowerPrompt == toLowerCase(prompt)
  IN  IF includes(lowerPrompt, "study style") \/ includes(lowerPrompt, "learning")
        THEN StringifyText(SmartStudyStyle)
      ELSE IF includes(lowerPrompt, "stress") \/ includes(lowerPrompt, "lifestyle")
        THEN StringifyText(SmartStress)
      ELSE IF includes(lowerPrompt, "roadmap") \/ includes(lowerPrompt, "course")
        THEN StringifyText(SmartRoadmap)
      ELSE IF includes(lowerPrompt, "support") \/ includes(lowerPrompt, "coach")
        THEN SmartSupportText
      ELSE "Thanks for your question about \"" \o prompt \o "\". " \o SmartNovaText

\* generateSmartResponse(prompt), for a string prompt
generateSmartResponse(prompt) ==
  LET lowerPrompt == toLowerCase(prompt)
  IN  IF includes(lowerPrompt, "study style") \/ includes(lowerPrompt, "learning")
        THEN StringifyText(SmartStudyStyle)
      ELSE IF includes(lowerPrompt, "stress") \/ includes(lowerPrompt, "lifestyle")
        THEN StringifyText(SmartStress)
      ELSE IF includes(lowerPrompt, "roadmap") \/ includes(lowerPrompt, "course")
        THEN StringifyText(SmartRoadmap)
      ELSE IF includes(lowerPrompt, "support") \/ includes(lowerPrompt, "coach")
        THEN SmartSupportText
      ELSE SmartNovaText

\* lines 55-59 of chat: the content taken from a response body, as a string;
\* reading a property of a null or undefined body throws inside the
\* endpoint's own try
chatContent(data) ==
  IF Member(data, "response").threw THEN Thrown
  ELSE LET content ==
             IF Truthy(Field(data, "response")) THEN Field(data, "response")
             ELSE IF Truthy(Field(data, "message")) THEN Field(data, "message")
             ELSE IF Truthy(Field(data, "content")) THEN Field(data, "content")
             ELSE data
       IN  Returned(IF IsStr(content) THEN content.v ELSE StringifyText(content))

(***************************************************************************)
(* backend/server.js: the history table, its two helpers and the AI        *)
(* routes.  A behaviour follows one request from its arrival to its        *)
(* response; the history table it meets is one that earlier requests       *)
(* left.  The history columns prompt and response are JSONB: the order     *)
(* in which PostgreSQL returns the members of a stored object is not       *)
(* modelled (a row is read back with the members in the order written).    *)
(***************************************************************************)
VARIABLES
  client,          \* the PuterClient singleton's fields
  hasHuggingFace,  \* !!process.env.HF_API_KEY
  hasOpenAI,       \* !!process.env.OPENAI_API_KEY (direct-provider server)
  history,         \* the history table, oldest row first
  req,             \* the request backend/server.js is serving
  dreq,            \* the request the direct-provider server is serving
  mock,            \* the calls made on the mock path, with what each returned
  pcall,           \* the call of a PuterClient method a caller awaits
  orc,             \* the OpenRouterClient object and the call of its method a caller awaits
  timer,           \* the state of the BreathingTimer component
  app,             \* the state of the frontend App: useState values, localStorage, location
  signup,          \* the users table and the POST /auth/signup requests being served
  auth             \* what the request in req carried: its token and its upload

vars == <<client, hasHuggingFace, hasOpenAI, history, req, dreq, mock, pcall, orc, timer, app, signup, auth>>

NumUsers == 2
Users == 1..NumUsers

TextRoutes == {"study-style", "stress", "genieguide", "chat", "support"}
JsonRoutes == {"study-style", "stress", "genieguide"}
Routes == TextRoutes \cup {"image-analyze"}

HistoryContextLimit == 10

Reverse(s) == [i \in 1..Len(s) |-> s[Len(s) + 1 - i]]

\* a Date column as JSON.stringify writes it; the n-th row is stamped n seconds in
Timestamp(n) == "2024-01-01T00:00:0" \o ToString(n) \o ".000Z"

\* a row of the SELECT of getUserHistoryContext, as node-pg returns it
RowObject(row) ==
  Obj(<<<<"id", Str(ToString(row.id))>>,
        <<"feature_name", Str(row.feature_name)>>,
        <<"prompt", row.prompt>>,
        <<"response", row.response>>,
        <<"created_at", Str(Timestamp(row.created_at))>>>>)

\* getUserHistoryContext: the user's rows, newest first, at most 10; [] when
\* the query fails
getUserHistoryContext(table, userId, queryOk) ==
  IF queryOk
    THEN LET own == Reverse(SelectSeq(table, LAMBDA row : row.user_id = userId))
         IN  [i \in 1..Min(HistoryContextLimit, Len(own)) |-> RowObject(own[i])]
    ELSE <<>>

\* saveHistory: one row more, holding what JSON.stringify wrote of prompt and
\* response; the table as it was when the INSERT fails
saveHistory(table, userId, featureName, prompt, response, insertOk) ==
  IF insertOk
    THEN Append(table, [id |-> Len(table) + 1,
                        user_id |-> userId,
                        feature_name |-> featureName,
                        prompt |-> JSONparse(StringifyText(prompt)).v,
                        response |-> JSONparse(StringifyText(response)).v,
                        created_at |-> Len(table) + 1])
    ELSE table

\* the prompt of POST /ai/study-style
StudyStylePrompt(answers) ==
  "You are an educational AI that analyzes study style preferences. Based on the user's responses to a 5-point Likert scale questionnaire (1=Strongly Disagree, 5=Strongly Agree), provide a detailed analysis of their learning style, strengths, and personalized study recommendations. Return your response as a JSON object with fields: style (main learning style), strengths (array of strengths), recommendations (array of specific study tips), and summary (brief overview).\n\nPlease analyze these study style responses: "
    \o ToText(JSONstringify(answers))

\* the prompt of POST /ai/stress
StressPrompt(lifestyle) ==
  "You are a stress level analyzer. Return JSON with: level (Low/Medium/High), drivers (array of strings), suggestions (array of strings).\n\nAnalyze stress level from lifestyle data: "
    \o ToText(JSONstringify(lifestyle))

\* the prompt of POST /ai/genieguide
GenieGuidePrompt(courseInfo, weeklyHours) ==
  "Create a study roadmap. Return JSON with: roadmap (array of week objects with week number, topics, activities), mindmap (string describing connections between topics).\n\nCreate roadmap for: "
    \o ToText(courseInfo) \o ", " \o ToText(weeklyHours) \o " hours/week"

\* had the rows read not been cut to three
contextMessageOfAllRows(historyContext) ==
  IF Len(historyContext) > 0
    THEN "User's recent activity: " \o StringifyText(Arr(historyContext))
    ELSE "No recent activity available."

\* the context sentence of POST /ai/chat: the first three rows read, serialised
contextMessage(historyContext) ==
  IF Len(historyContext) > 0
    THEN "User's recent activity: "
           \o StringifyText(Arr(SubSeq(historyContext, 1, Min(3, Len(historyContext)))))
    ELSE "No recent activity available."

\* the prompt of POST /ai/chat
ChatPrompt(historyContext, message) ==
  "You are NOVA, a helpful study assistant. Provide educational support and study guidance. "
    \o contextMessage(historyContext) \o "\n\nUser question: " \o ToText(message)

\* the prompt of POST /ai/support
SupportPrompt(message) ==
  "You are a supportive educational coach. Provide empathetic, encouraging responses. Always include a disclaimer that this is educational support, not medical care.\n\nUser message: "
    \o ToText(message)

\* the mock of POST /ai/study-style
StudyStyleMock ==
  Obj(<<
    <<"style", Str("Visual-Kinesthetic Learner")>>,
    <<"strengths", Arr(<<Str("Visual processing"), Str("Hands-on learning"), Str("Pattern recognition")>>)>>,
    <<"recommendations", Arr(<<
      Str("Use mind maps and diagrams for complex topics"),
      Str("Take frequent breaks during study sessions"),
      Str("Practice with real-world examples and case studies"),
      Str("Use color-coding for different subjects or topics")>>)>>,
    <<"summary", Str("You learn best through visual aids and hands-on activities. Incorporate diagrams, charts, and practical exercises into your study routine.")>>>>)

\* the mock of POST /ai/stress
StressMock ==
  Obj(<<
    <<"level", Str("Medium")>>,
    <<"drivers", Arr(<<Str("Academic workload"), Str("Time management"), Str("Social pressures")>>)>>,
    <<"suggestions", Arr(<<
      Str("Practice deep breathing exercises daily"),
      Str("Create a structured study schedule"),
      Str("Take regular breaks during study sessions"),
      Str("Consider talking to a counselor or trusted friend")>>)>>>>)

\* the mock of POST /ai/genieguide
GenieGuideMock ==
  Obj(<<
    <<"roadmap", Arr(<<
      Obj(<<
        <<"week", Num("1")>>,
        <<"topics", Arr(<<Str("Course Overview"), Str("Basic Concepts")>>)>>,
        <<"activities", Arr(<<Str("Read chapters 1-2"), Str("Complete intro quiz")>>)>>>>),
      Obj(<<
        <<"week", Num("2")>>,
        <<"topics", Arr(<<Str("Core Principles"), Str("Practical Applications")>>)>>,
        <<"activities", Arr(<<Str("Practice problems"), Str("Group discussion")>>)>>>>),
      Obj(<<
        <<"week", Num("3")>>,
        <<"topics", Arr(<<Str("Advanced Topics"), Str("Case Studies")>>)>>,
        <<"activities", Arr(<<Str("Research project"), Str("Peer review")>>)>>>>),
      Obj(<<
        <<"week", Num("4")>>,
        <<"topics", Arr(<<Str("Integration"), Str("Review")>>)>>,
        <<"activities", Arr(<<Str("Final project"), Str("Comprehensive review")>>)>>>>)>>)>>,
    <<"mindmap", Str("Core concepts connect to practical applications, which branch into case studies and real-world examples. Advanced topics build upon basic principles, leading to integrated understanding and mastery.")>>>>)

\* the mock of POST /ai/chat: a template literal around the message
ChatMock(message) ==
  Obj(<<<<"answer", Str("Thanks for your question about \""
                       \o ToText(message) \o
                       "\". As your study assistant NOVA, I'd recommend breaking this topic down into smaller parts and creating a study plan. Consider using active recall techniques and spaced repetition for better retention.")>>>>)

\* the disclaimer of POST /ai/support
Disclaimer ==
  "This is a supportive educational tool, not medical care. If you are in crisis, please seek local emergency help or contact a mental health professional."

\* the mock of POST /ai/support
SupportMock ==
  Obj(<<
    <<"response", Str("I hear you, and I want you to know that what you're feeling is valid. Academic challenges can be overwhelming, but remember that seeking support shows strength. Take things one step at a time, and be kind to yourself. You've got this!")>>,
    <<"disclaimer", Str(Disclaimer)>>>>)

\* the mock of POST /ai/image-analyze
ImageMock ==
  Obj(<<
    <<"labels", Arr(<<
      Obj(<<<<"label", Str("book")>>, <<"score", Num("0.85")>>>>),
      Obj(<<<<"label", Str("notebook")>>, <<"score", Num("0.72")>>>>),
      Obj(<<<<"label", Str("pen")>>, <<"score", Num("0.68")>>>>),
      Obj(<<<<"label", Str("desk")>>, <<"score", Num("0.45")>>>>),
      Obj(<<<<"label", Str("study materials")>>, <<"score", Num("0.38")>>>>)>>)>>>>)

InternalServerError == Obj(<<<<"error", Str("Internal server error")>>>>)
NoImageFile == Obj(<<<<"error", Str("No image file provided")>>>>)

\* the prompt a text route hands to puterClient.chat
RoutePrompt(route, body, historyContext) ==
  CASE route = "study-style" -> StudyStylePrompt(Field(body, "answers"))
    [] route = "stress" -> StressPrompt(Field(body, "lifestyle"))
    [] route = "genieguide" ->
         GenieGuidePrompt(Field(body, "courseInfo"), Field(body, "weeklyHours"))
    [] route = "chat" -> ChatPrompt(historyContext, Field(body, "message"))
    [] route = "support" -> SupportPrompt(Field(body, "message"))

\* the third argument a route gives saveHistory
HistoryPrompt(route, body, file) ==
  CASE route = "study-style" -> Obj(<<<<"answers", Field(body, "answers")>>>>)
    [] route = "stress" -> Obj(<<<<"lifestyle", Field(body, "lifestyle")>>>>)
    [] route = "genieguide" -> Obj(<<<<"courseInfo", Field(body, "courseInfo")>>,
                                     <<"weeklyHours", Field(body, "weeklyHours")>>>>)
    [] route = "chat" -> Obj(<<<<"message", Field(body, "message")>>>>)
    [] route = "support" -> Obj(<<<<"message", Field(body, "message")>>>>)
    [] route = "image-analyze" -> Obj(<<<<"filename", Field(file, "originalname")>>>>)

\* the response object of a route's inner catch block
RouteMock(route, body) ==
  CASE route = "study-style" -> StudyStyleMock
    [] route = "stress" -> StressMock
    [] route = "genieguide" -> GenieGuideMock
    [] route = "chat" -> ChatMock(Field(body, "message"))
    [] route = "support" -> SupportMock
    [] route = "image-analyze" -> ImageMock

\* `response = JSON.parse(...)` in a try block: the object, or the SyntaxError
ParsedOrThrown(parsed) == IF parsed.ok THEN Returned(parsed.v) ELSE Thrown

\* the inner try had it returned the content as it came, without JSON.parse
TryBodyUnparsed(route, content) ==
  CASE route \in JsonRoutes -> Returned(Str(content))
    [] route = "chat" -> Returned(Obj(<<<<"answer", Str(content)>>>>))
    [] route = "support" -> Returned(Obj(<<<<"response", Str(content)>>,
                                           <<"disclaimer", Str(Disclaimer)>>>>))

\* the inner try had the support route left the disclaimer out
TryBodyNoDisclaimer(route, content) ==
  CASE route \in JsonRoutes -> ParsedOrThrown(JSONparse(content))
    [] route = "chat" -> Returned(Obj(<<<<"answer", Str(content)>>>>))
    [] route = "support" -> Returned(Obj(<<<<"response", Str(content)>>>>))

\* the statements of a text route's inner try that follow `await puterClient.chat`
TryBody(route, content) ==
  CASE route \in JsonRoutes -> ParsedOrThrown(JSONparse(content))
    [] route = "chat" -> Returned(Obj(<<<<"answer", Str(content)>>>>))
    [] route = "support" -> Returned(Obj(<<<<"response", Str(content)>>,
                                           <<"disclaimer", Str(Disclaimer)>>>>))

\* a route had it no inner catch: what was thrown inside reaches the outer one
InnerCatchRethrows(route, body, attempt) == attempt

\* the inner try/catch of a route: what was thrown inside is answered by the mock
InnerCatch(route, body, attempt) ==
  IF attempt.threw THEN Returned(RouteMock(route, body)) ELSE attempt

(***************************************************************************)
(* The requests and provider answers the model draws from.                 *)
(***************************************************************************)
StudyBodies ==
  {Obj(<<<<"answers", Arr(<<Num("5"), Num("2"), Num("4")>>)>>>>),
   Obj(<<>>)}

StressBodies ==
  {Obj(<<<<"lifestyle", Obj(<<<<"sleepHours", Str("5-6")>>,
                              <<"workloadLevel", Str("high")>>>>)>>>>),
   Obj(<<<<"lifestyle", Obj(<<<<"sleepHours", Str("7-8")>>,
                              <<"copingMechanisms", Str("Learning the guitar")>>>>)>>>>)}

GenieBodies ==
  {Obj(<<<<"courseInfo", Str("Organic Chemistry")>>, <<"weeklyHours", Num("6")>>>>),
   Obj(<<<<"courseInfo", Str("Machine Learning")>>, <<"weeklyHours", Num("10")>>>>)}

PlainMessage == "What is photosynthesis?"
RoadmapMessage == "Can you help me build a roadmap for my course?"

ChatBodies ==
  {Obj(<<<<"message", Str(PlainMessage)>>>>),
   Obj(<<<<"message", Str(RoadmapMessage)>>>>),
   Obj(<<<<"message", Str("A ROADMAP to beat exam Stress")>>>>)}

SupportBodies == {Obj(<<<<"message", Str("I failed my exam and feel lost")>>>>)}

ImageFile == Obj(<<<<"originalname", Str("notes.png")>>>>)

\* the bodies and the upload (req.file) a request to a route may carry
RequestBodies(route) ==
  CASE route = "study-style" -> StudyBodies
    [] route = "stress" -> StressBodies
    [] route = "genieguide" -> GenieBodies
    [] route = "chat" -> ChatBodies
    [] route = "support" -> SupportBodies
    [] route = "image-analyze" -> {Obj(<<>>)}

RequestFiles(route) == IF route = "image-analyze" THEN {ImageFile, Undefined} ELSE {Undefined}

\* an instance of the study-style schema, as a provider would word it
ProviderStudyStyle ==
  Obj(<<<<"style", Str("Auditory Learner")>>,
        <<"strengths", Arr(<<Str("Listening")>>)>>,
        <<"recommendations", Arr(<<Str("Record your lectures")>>)>>,
        <<"summary", Str("You retain what you hear.")>>>>)

PlainText == "Sure! Here is my analysis: you are a visual learner."

\* response.data of a 2xx answer of a Puter endpoint
ProviderBodies ==
  {Str(PlainText),
   Null,
   Obj(<<>>),
   Obj(<<<<"error", Str("model overloaded")>>>>),
   Obj(<<<<"response", Str(StringifyText(ProviderStudyStyle))>>>>)}

\* the ways an axios.post rejects
CallFailures == {"network", "timeout", "status"}

\* the ways an axios.post rejects when it was given no timeout option
UntimedFailures == CallFailures \ {"timeout"}

\* response.data of a 2xx answer of the HuggingFace endpoint
HuggingFaceBodies ==
  {Arr(<<Obj(<<<<"label", Str("laptop")>>, <<"score", Num("0.91")>>>>)>>),
   Obj(<<<<"error", Str("Model is loading")>>>>)}

(***************************************************************************)
(* backend/server.js as a state machine.                                   *)
(***************************************************************************)
Idle ==
  [pc |-> "idle", route |-> "", user |-> 0, body |-> Undefined, file |-> Undefined,
   context |-> <<>>, prompt |-> "", ep |-> 0, last |-> "none", data |-> Undefined,
   rejected |-> 0, source |-> "none", content |-> "", response |-> Undefined,
   status |-> 0, saved |-> FALSE, saves |-> <<>>, sent |-> <<>>]

\* res.status(status).json(body): the handler is through
Send(r, status, body) ==
  [r EXCEPT !.pc = "done", !.status = status, !.response = body,
            !.sent = Append(r.sent, [status |-> status, body |-> body])]

\* no call of a PuterClient method is in progress
NoCall ==
  [pc |-> "idle", fn |-> "", arg |-> Undefined, prompt |-> Undefined, ep |-> 0,
   log |-> <<>>, elapsed |-> 0, result |-> Thrown]

\* no OpenRouterClient has been built
NoOpenRouter ==
  [pc |-> "none", apiKey |-> Undefined, available |-> FALSE, fn |-> "", arg |-> Undefined,
   posts |-> 0, result |-> Thrown]

\* what the first request of a route leaves in the history table when every
\* endpoint fails
FirstRow(route, userId, body) ==
  saveHistory(<<>>, userId, route, HistoryPrompt(route, body, Undefined),
              InnerCatch(route, body,
                         TryBody(route, generateSmartResponse(RoutePrompt(route, body, <<>>)))).v,
              TRUE)

\* the history tables a request may meet: an empty one, or the row of an
\* earlier stress check or study-style quiz of some user
SeedHistories ==
  {<<>>}
    \cup {FirstRow("stress", u, CHOOSE b \in StressBodies : TRUE) : u \in Users}
    \cup {FirstRow("study-style", 1, Obj(<<>>))}

\* BreathingTimer as first rendered: its four useState values, and next to them
\* the exhale countdowns that ran out since the last start
BreathingTimerNew ==
  [isActive |-> FALSE, phase |-> "inhale", timeLeft |-> 4, cycle |-> 0, rounds |-> 0]

\* the App as first rendered in a browser that stored nothing: its two useState
\* values, the two localStorage items, the location, and what is rendered
AppNew ==
  [loading |-> TRUE, user |-> Null, token |-> Null, userData |-> Null,
   path |-> "/", page |-> "Loading"]

NumSignups == 2

\* the users table as init.sql creates it, its id sequence, and no signup
\* request yet
NoSignups ==
  [users |-> <<>>, seq |-> 0,
   reqs |-> [i \in 1..NumSignups |->
               [pc |-> "idle", username |-> Undefined, password |-> Undefined,
                status |-> 0, body |-> Undefined]]]

\* no request yet: no Authorization header, no upload
NoHeaders == [token |-> Undefined, upload |-> "none"]

Init ==
  /\ client = PuterClientNew
  /\ hasHuggingFace \in BOOLEAN
  /\ hasOpenAI = FALSE
  /\ history \in SeedHistories
  /\ req = Idle
  /\ dreq = Idle
  /\ mock = <<>>
  /\ pcall = NoCall
  /\ orc = NoOpenRouter
  /\ timer = BreathingTimerNew
  /\ app = AppNew
  /\ signup = NoSignups
  /\ auth = NoHeaders

\* the handler once its inner try/catch is through: the outer catch when
\* something was thrown past it, `await saveHistory` next otherwise
AfterInnerTry(r, content, source, result) ==
  IF result.threw
    THEN Send([r EXCEPT !.content = content, !.source = source], 500, InternalServerError)
    ELSE [r EXCEPT !.pc = "save", !.content = content, !.source = source,
                   !.response = result.v]

\* the handler from `await puterClient.chat` resolving to `await saveHistory`:
\* the rest of the inner try, the inner catch, and the outer catch
AfterChat(r, content, source) ==
  AfterInnerTry(r, content, source, InnerCatch(r.route, r.body, TryBody(r.route, content)))

\* PuterClient.chat after an endpoint's try block threw: the next endpoint, or
\* past the last one the fallback of lines 67-80
AfterEndpointThrew(r) ==
  IF r.ep < Len(Endpoints(client))
    THEN [r EXCEPT !.ep = r.ep + 1]
    ELSE AfterChat(r, generateSmartResponse(r.prompt), "smart")

\* had getUserHistoryContext no catch of its own: the failed read of a chat
\* request reaches the handler's outer catch
ReceiveReadUncaught(route, userId, body, file, queryOk) ==
  /\ req.pc = "idle"
  /\ LET r == [Idle EXCEPT !.route = route, !.user = userId, !.body = body, !.file = file]
     IN  IF route = "chat" /\ ~queryOk
           THEN req' = Send(r, 500, InternalServerError)
         ELSE IF route \in TextRoutes
           THEN req' = [r EXCEPT !.context = getUserHistoryContext(history, userId, route = "chat"),
                                 !.prompt = RoutePrompt(route, body, getUserHistoryContext(history, userId, route = "chat")),
                                 !.pc = "call", !.ep = 1]
         ELSE IF file = Undefined
           THEN req' = Send(r, 400, NoImageFile)
         ELSE req' = [r EXCEPT !.pc = IF hasHuggingFace THEN "hf" ELSE "save",
                               !.source = IF hasHuggingFace THEN "none" ELSE "mock",
                               !.response = IF hasHuggingFace THEN Undefined
                                            ELSE RouteMock(route, body)]
  /\ UNCHANGED <<client, hasHuggingFace, hasOpenAI, history, dreq, mock, pcall, orc, timer, app, signup, auth>>

\* a request arrives with a valid token and its handler runs to its first
\* provider call
Receive(route, userId, body, file, queryOk) ==
  /\ req.pc = "idle"
  /\ LET r == [Idle EXCEPT !.route = route, !.user = userId, !.body = body, !.file = file]
     IN  IF route \in TextRoutes
           THEN LET context == IF route = "chat"
                                 THEN getUserHistoryContext(history, userId, queryOk)
                                 ELSE <<>>
                    p == RoutePrompt(route, body, context)
                    s == [r EXCEPT !.context = context, !.prompt = p]
                IN  IF ~isAvailable(client)
                      THEN req' = [s EXCEPT !.pc = "save", !.source = "mock",
                                            !.response = RouteMock(route, body)]
                    ELSE IF client.fallbackToMock
                      THEN req' = AfterChat(s, generateSmartResponse(p), "smart")
                    ELSE req' = [s EXCEPT !.pc = "call", !.ep = 1]
         ELSE IF file = Undefined
           THEN req' = Send(r, 400, NoImageFile)
         ELSE IF hasHuggingFace
           THEN req' = [r EXCEPT !.pc = "hf"]
         ELSE req' = [r EXCEPT !.pc = "save", !.source = "mock",
                               !.response = RouteMock(route, body)]
  /\ UNCHANGED <<client, hasHuggingFace, hasOpenAI, history, dreq, mock, pcall, orc, timer, app, signup, auth>>

\* the axios.post to the current endpoint rejects
EndpointFails(kind) ==
  /\ req.pc = "call"
  /\ req' = AfterEndpointThrew([req EXCEPT !.last = kind, !.data = Undefined,
                                           !.rejected = req.rejected + 1])
  /\ UNCHANGED <<client, hasHuggingFace, hasOpenAI, history, dreq, mock, pcall, orc, timer, app, signup, auth>>

\* the axios.post to the current endpoint resolves with a 2xx answer
EndpointAnswers(data) ==
  /\ req.pc = "call"
  /\ LET r == [req EXCEPT !.last = "success", !.data = data]
         content == chatContent(data)
     IN  req' = IF content.threw THEN AfterEndpointThrew(r)
                ELSE AfterChat(r, content.v, "provider")
  /\ UNCHANGED <<client, hasHuggingFace, hasOpenAI, history, dreq, mock, pcall, orc, timer, app, signup, auth>>

\* the image route had it no inner catch: the rejection reaches the outer one
HuggingFaceFailsUncaught(kind) ==
  /\ req.pc = "hf"
  /\ req' = Send([req EXCEPT !.last = kind, !.rejected = 1], 500, InternalServerError)
  /\ UNCHANGED <<client, hasHuggingFace, hasOpenAI, history, dreq, mock, pcall, orc, timer, app, signup, auth>>

\* the axios.post to HuggingFace rejects: the inner catch answers with the mock
HuggingFaceFails(kind) ==
  /\ req.pc = "hf"
  /\ req' = [req EXCEPT !.pc = "save", !.last = kind, !.rejected = 1, !.source = "mock",
                        !.response = RouteMock(req.route, req.body)]
  /\ UNCHANGED <<client, hasHuggingFace, hasOpenAI, history, dreq, mock, pcall, orc, timer, app, signup, auth>>

\* the axios.post to HuggingFace resolves
HuggingFaceAnswers(data) ==
  /\ req.pc = "hf"
  /\ req' = [req EXCEPT !.pc = "save", !.last = "success", !.data = data,
                        !.source = "provider",
                        !.response = Obj(<<<<"labels", data>>>>)]
  /\ UNCHANGED <<client, hasHuggingFace, hasOpenAI, history, dreq, mock, pcall, orc, timer, app, signup, auth>>

\* the handler had it stored every record under the first user's id
HistoryArgsOfFirstUser(r) ==
  [userId |-> 1, featureName |-> r.route, prompt |-> HistoryPrompt(r.route, r.body, r.file),
   response |-> r.response]

\* the arguments a route passes to saveHistory
HistoryArgs(r) ==
  [userId |-> r.user, featureName |-> r.route,
   prompt |-> HistoryPrompt(r.route, r.body, r.file), response |-> r.response]

\* had saveHistory no catch of its own: the failed INSERT reaches the handler's
\* outer catch
SaveAndRespondUncaught(insertOk) ==
  /\ req.pc = "save"
  /\ history' = saveHistory(history, HistoryArgs(req).userId, HistoryArgs(req).featureName,
                            HistoryArgs(req).prompt, HistoryArgs(req).response, insertOk)
  /\ req' = IF insertOk
              THEN Send([req EXCEPT !.saved = TRUE, !.saves = Append(req.saves, HistoryArgs(req))],
                        200, req.response)
              ELSE Send([req EXCEPT !.saves = Append(req.saves, HistoryArgs(req))],
                        500, InternalServerError)
  /\ UNCHANGED <<client, hasHuggingFace, hasOpenAI, dreq, mock, pcall, orc, timer, app, signup, auth>>

\* `await saveHistory(...)` and `res.json(response)`
SaveAndRespond(insertOk) ==
  /\ req.pc = "save"
  /\ history' = saveHistory(history, HistoryArgs(req).userId, HistoryArgs(req).featureName,
                            HistoryArgs(req).prompt, HistoryArgs(req).response, insertOk)
  /\ req' = Send([req EXCEPT !.saved = insertOk, !.saves = Append(req.saves, HistoryArgs(req))],
                 200, req.response)
  /\ UNCHANGED <<client, hasHuggingFace, hasOpenAI, dreq, mock, pcall, orc, timer, app, signup, auth>>

Next ==
  \/ \E route \in Routes, userId \in Users, queryOk \in BOOLEAN :
       \E body \in RequestBodies(route), file \in RequestFiles(route) :
         /\ (route # "chat" => queryOk)
         /\ Receive(route, userId, body, file, queryOk)
  \/ \E kind \in CallFailures : EndpointFails(kind)
  \/ \E data \in ProviderBodies : EndpointAnswers(data)
  \/ \E kind \in UntimedFailures : HuggingFaceFails(kind)
  \/ \E data \in HuggingFaceBodies : HuggingFaceAnswers(data)
  \/ \E insertOk \in BOOLEAN : SaveAndRespond(insertOk)

Spec == Init /\ [][Next]_vars

(***************************************************************************)
(* backend/puterClient.js, lines 165-622: the direct-provider server.  Its *)
(* text routes call OpenAI, and its image route HuggingFace, with no try   *)
(* block of their own; the mock is the else branch of the key test.        *)
(***************************************************************************)
\* the mock of POST /ai/study-style (direct-provider server)
DirectStudyStyleMock ==
  Obj(<<
    <<"primary", Str("Visual")>>,
    <<"secondary", Str("Kinesthetic")>>,
    <<"probabilities", Obj(<<<<"visual", Num("45")>>, <<"auditory", Num("25")>>, <<"kinesthetic", Num("30")>>>>)>>,
    <<"tips", Arr(<<
      Str("Use diagrams and mind maps for complex topics"),
      Str("Color-code your notes and materials"),
      Str("Take breaks to move around while studying"),
      Str("Practice with hands-on activities when possible")>>)>>>>)

\* the mock of POST /ai/stress (direct-provider server)
DirectStressMock ==
  Obj(<<
    <<"level", Str("Medium")>>,
    <<"drivers", Arr(<<Str("Academic workload"), Str("Time management"), Str("Social pressures")>>)>>,
    <<"suggestions", Arr(<<
      Str("Practice deep breathing exercises daily"),
      Str("Create a structured study schedule"),
      Str("Take regular breaks during study sessions"),
      Str("Consider talking to a counselor or trusted friend")>>)>>>>)

\* the mock of POST /ai/genieguide (direct-provider server)
DirectGenieGuideMock ==
  Obj(<<
    <<"roadmap", Arr(<<
      Obj(<<
        <<"week", Num("1")>>,
        <<"topics", Arr(<<Str("Course Overview"), Str("Basic Concepts")>>)>>,
        <<"activities", Arr(<<Str("Read chapters 1-2"), Str("Complete intro quiz")>>)>>>>),
      Obj(<<
        <<"week", Num("2")>>,
        <<"topics", Arr(<<Str("Core Principles"), Str("Practical Applications")>>)>>,
        <<"activities", Arr(<<Str("Practice problems"), Str("Group discussion")>>)>>>>),
      Obj(<<
        <<"week", Num("3")>>,
        <<"topics", Arr(<<Str("Advanced Topics"), Str("Case Studies")>>)>>,
        <<"activities", Arr(<<Str("Research project"), Str("Peer review")>>)>>>>),
      Obj(<<
        <<"week", Num("4")>>,
        <<"topics", Arr(<<Str("Integration"), Str("Review")>>)>>,
        <<"activities", Arr(<<Str("Final project"), Str("Comprehensive review")>>)>>>>)>>)>>,
    <<"mindmap", Str("Core concepts connect to practical applications, which branch into case studies and real-world examples. Advanced topics build upon basic principles, leading to integrated understanding and mastery.")>>>>)

\* the mock of POST /ai/chat (direct-provider server): a template literal around the message
DirectChatMock(message) ==
  Obj(<<<<"answer", Str("Thanks for your question about \""
                       \o ToText(message) \o
                       "\". As your study assistant NOVA, I'd recommend breaking this topic down into smaller parts and creating a study plan. Consider using active recall techniques and spaced repetition for better retention.")>>>>)

\* the disclaimer of POST /ai/support (direct-provider server)
DirectDisclaimer ==
  "This is a supportive educational tool, not medical care. If you are in crisis, please seek local emergency help or contact a mental health professional."

\* the mock of POST /ai/support (direct-provider server)
DirectSupportMock ==
  Obj(<<
    <<"response", Str("I hear you, and I want you to know that what you're feeling is valid. Academic challenges can be overwhelming, but remember that seeking support shows strength. Take things one step at a time, and be kind to yourself. You've got this!")>>,
    <<"disclaimer", Str(DirectDisclaimer)>>>>)

\* the mock of POST /ai/image-analyze (direct-provider server)
DirectImageMock ==
  Obj(<<
    <<"labels", Arr(<<
      Obj(<<<<"label", Str("book")>>, <<"score", Num("0.85")>>>>),
      Obj(<<<<"label", Str("notebook")>>, <<"score", Num("0.72")>>>>),
      Obj(<<<<"label", Str("pen")>>, <<"score", Num("0.68")>>>>),
      Obj(<<<<"label", Str("desk")>>, <<"score", Num("0.45")>>>>),
      Obj(<<<<"label", Str("study materials")>>, <<"score", Num("0.38")>>>>)>>)>>>>)


\* the else branch of a route's `if (hasOpenAI)` / `if (hasHuggingFace)`
DirectMock(route, body) ==
  CASE route = "study-style" -> DirectStudyStyleMock
    [] route = "stress" -> DirectStressMock
    [] route = "genieguide" -> DirectGenieGuideMock
    [] route = "chat" -> DirectChatMock(Field(body, "message"))
    [] route = "support" -> DirectSupportMock
    [] route = "image-analyze" -> DirectImageMock

\* a row of the SELECT of the direct-provider getUserHistoryContext
DirectRowObject(row) ==
  Obj(<<<<"feature_name", Str(row.feature_name)>>,
        <<"prompt", row.prompt>>,
        <<"response", row.response>>>>)

\* getUserHistoryContext of the direct-provider server
DirectGetUserHistoryContext(table, userId, queryOk) ==
  IF queryOk
    THEN LET own == Reverse(SelectSeq(table, LAMBDA row : row.user_id = userId))
         IN  [i \in 1..Min(HistoryContextLimit, Len(own)) |-> DirectRowObject(own[i])]
    ELSE <<>>

\* the content of the user message a text route posts to OpenAI
DirectUserContent(route, body) ==
  CASE route = "study-style" ->
         "Analyze these quiz answers and determine learning style: "
           \o ToText(JSONstringify(Field(body, "answers")))
    [] route = "stress" ->
         "Analyze stress level from lifestyle data: "
           \o ToText(JSONstringify(Field(body, "lifestyle")))
    [] route = "genieguide" ->
         "Create roadmap for: " \o ToText(Field(body, "courseInfo")) \o ", "
           \o ToText(Field(body, "weeklyHours")) \o " hours/week"
    [] route = "chat" -> ToText(Field(body, "message"))
    [] route = "support" -> ToText(Field(body, "message"))

\* whether the key a route tests is set
DirectConfigured(route) == IF route = "image-analyze" THEN hasHuggingFace ELSE hasOpenAI

\* openaiResponse.data.choices[0].message.content: a TypeError where a link
\* of the chain is null or undefined
DirectContent(data) ==
  LET choices == Member(data, "choices")
      first == IF choices.threw THEN Thrown ELSE Member(choices.v, "0")
      message == IF first.threw THEN Thrown ELSE Member(first.v, "message")
  IN  IF message.threw THEN Thrown ELSE Member(message.v, "content")

\* what a text route makes of the content it read off the completion
DirectRead(route, content) ==
  IF content.threw THEN Thrown
  ELSE CASE route \in JsonRoutes -> ParsedOrThrown(JSONparse(ToText(content.v)))
         [] route = "chat" -> Returned(Obj(<<<<"answer", content.v>>>>))
         [] route = "support" ->
              Returned(Obj(<<<<"response", content.v>>,
                             <<"disclaimer", Str(DirectDisclaimer)>>>>))

\* the statements of a route's provider branch that follow `await axios.post`
DirectTryBody(route, data) ==
  IF route = "image-analyze" THEN Returned(Obj(<<<<"labels", data>>>>))
  ELSE DirectRead(route, DirectContent(data))

\* a chat completion as OpenAI answers it
Completion(content) ==
  Obj(<<<<"choices", Arr(<<Obj(<<<<"message",
            Obj(<<<<"role", Str("assistant")>>, <<"content", content>>>>)>>>>)>>)>>>>)

\* response.data of a 2xx answer of OpenAI
OpenAIBodies ==
  {Completion(Str(PlainText)),
   Completion(Str(StringifyText(ProviderStudyStyle))),
   Completion(Null),
   Obj(<<<<"choices", Arr(<<>>)>>>>),
   Obj(<<<<"error", Str("model overloaded")>>>>)}

\* a request arrives at the direct-provider server with a valid token
DirectReceive(route, userId, body, file, queryOk) ==
  /\ dreq.pc = "idle"
  /\ LET context == IF route = "chat"
                      THEN DirectGetUserHistoryContext(history, userId, queryOk)
                      ELSE <<>>
         r == [Idle EXCEPT !.route = route, !.user = userId, !.body = body,
                           !.file = file, !.context = context]
     IN  IF route = "image-analyze" /\ file = Undefined
           THEN dreq' = [r EXCEPT !.pc = "done", !.status = 400, !.response = NoImageFile]
         ELSE IF DirectConfigured(route)
           THEN dreq' = [r EXCEPT !.pc = "call", !.ep = 1,
                                  !.prompt = IF route = "image-analyze" THEN ""
                                             ELSE DirectUserContent(route, body)]
         ELSE dreq' = [r EXCEPT !.pc = "save", !.source = "mock",
                                !.response = DirectMock(route, body)]
  /\ UNCHANGED <<client, hasHuggingFace, hasOpenAI, history, req, mock, pcall, orc, timer, app, signup, auth>>

\* the axios.post rejects: the route's only catch answers 500
DirectProviderFails(kind) ==
  /\ dreq.pc = "call"
  /\ dreq' = [dreq EXCEPT !.pc = "done", !.last = kind, !.rejected = 1,
                          !.status = 500, !.response = InternalServerError]
  /\ UNCHANGED <<client, hasHuggingFace, hasOpenAI, history, req, mock, pcall, orc, timer, app, signup, auth>>

\* the axios.post resolves with a 2xx answer
DirectProviderAnswers(data) ==
  /\ dreq.pc = "call"
  /\ LET result == DirectTryBody(dreq.route, data)
         r == [dreq EXCEPT !.last = "success", !.data = data, !.source = "provider"]
     IN  dreq' = IF result.threw
                   THEN [r EXCEPT !.pc = "done", !.status = 500,
                                  !.response = InternalServerError]
                   ELSE [r EXCEPT !.pc = "save", !.response = result.v]
  /\ UNCHANGED <<client, hasHuggingFace, hasOpenAI, history, req, mock, pcall, orc, timer, app, signup, auth>>

\* `await saveHistory(...)` and `res.json(response)`
DirectSaveAndRespond(insertOk) ==
  /\ dreq.pc = "save"
  /\ history' = saveHistory(history, dreq.user, dreq.route,
                            HistoryPrompt(dreq.route, dreq.body, dreq.file),
                            dreq.response, insertOk)
  /\ dreq' = [dreq EXCEPT !.pc = "done", !.status = 200, !.saved = insertOk]
  /\ UNCHANGED <<client, hasHuggingFace, hasOpenAI, req, mock, pcall, orc, timer, app, signup, auth>>

InitDirect ==
  /\ client = PuterClientNew
  /\ hasHuggingFace \in BOOLEAN
  /\ hasOpenAI \in BOOLEAN
  /\ history = <<>>
  /\ req = Idle
  /\ dreq = Idle
  /\ mock = <<>>
  /\ pcall = NoCall
  /\ orc = NoOpenRouter
  /\ timer = BreathingTimerNew
  /\ app = AppNew
  /\ signup = NoSignups
  /\ auth = NoHeaders

NextDirect ==
  \/ \E route \in Routes, userId \in Users, queryOk \in BOOLEAN :
       \E body \in RequestBodies(route), file \in RequestFiles(route) :
         /\ (route # "chat" => queryOk)
         /\ DirectReceive(route, userId, body, file, queryOk)
  \/ \E kind \in UntimedFailures : DirectProviderFails(kind)
  \/ \E data \in IF dreq.route = "image-analyze" THEN HuggingFaceBodies ELSE OpenAIBodies :
       DirectProviderAnswers(data)
  \/ \E insertOk \in BOOLEAN : DirectSaveAndRespond(insertOk)

SpecDirect == InitDirect /\ [][NextDirect]_vars

(***************************************************************************)
(* The mock path on its own: generateSmartResponse and the route-level     *)
(* mocks called twice in a row, each call recorded with what it returned.  *)
(* A prompt is made of the words below, joined by spaces; the second call  *)
(* takes a prompt of at most one word.                                     *)
(***************************************************************************)
MaxWords == 2

PromptWords ==
  {"Study Style", "LEARNING", "Stress", "lifestyle", "ROADMAP", "Course",
   "support", "Coach", "hello"}

WordLists(n) == UNION {[1..k -> PromptWords] : k \in 0..n}

RECURSIVE JoinWords(_)
JoinWords(words) ==
  IF words = <<>> THEN ""
  ELSE IF Len(words) = 1 THEN words[1]
  ELSE words[1] \o " " \o JoinWords(Tail(words))

CitationMessage == "How do I cite a paper?"

\* the bodies the route-level mocks are called with
MockBodies(route) ==
  IF route = "chat"
    THEN ChatBodies \cup {Obj(<<<<"message", Str(CitationMessage)>>>>)}
    ELSE RequestBodies(route)

\* puterClient.generateSmartResponse(prompt) is called
SmartCall(words) ==
  /\ Len(mock) <= 1
  /\ Len(mock) = 1 => Len(words) <= 1
  /\ mock' = Append(mock, [fn |-> "generateSmartResponse", route |-> "",
                           words |-> words, input |-> Str(JoinWords(words)),
                           out |-> Str(generateSmartResponse(JoinWords(words)))])
  /\ UNCHANGED <<client, hasHuggingFace, hasOpenAI, history, req, dreq, pcall, orc, timer, app, signup, auth>>

\* the inner catch block of a route builds its mock
RouteMockCall(route, body) ==
  /\ Len(mock) <= 1
  /\ mock' = Append(mock, [fn |-> "mock", route |-> route,
                           words |-> <<>>, input |-> body,
                           out |-> RouteMock(route, body)])
  /\ UNCHANGED <<client, hasHuggingFace, hasOpenAI, history, req, dreq, pcall, orc, timer, app, signup, auth>>

InitMock ==
  /\ client = PuterClientNew
  /\ hasHuggingFace = FALSE
  /\ hasOpenAI = FALSE
  /\ history = <<>>
  /\ req = Idle
  /\ dreq = Idle
  /\ mock = <<>>
  /\ pcall = NoCall
  /\ orc = NoOpenRouter
  /\ timer = BreathingTimerNew
  /\ app = AppNew
  /\ signup = NoSignups
  /\ auth = NoHeaders

NextMock ==
  \/ \E words \in WordLists(MaxWords) : SmartCall(words)
  \/ \E route \in Routes : \E body \in MockBodies(route) : RouteMockCall(route, body)

SpecMock == InitMock /\ [][NextMock]_vars

(***************************************************************************)
(* Properties of backend/server.js (specification Spec).                   *)
(***************************************************************************)
\* the fields of each route's response schema
SchemaFields(route) ==
  CASE route = "study-style" -> {"style", "strengths", "recommendations", "summary"}
    [] route = "stress" -> {"level", "drivers", "suggestions"}
    [] route = "genieguide" -> {"roadmap", "mindmap"}
    [] route = "chat" -> {"answer"}
    [] route = "support" -> {"response", "disclaimer"}
    [] route = "image-analyze" -> {"labels"}

\* the fields that belong to the schemas of the other routes only
ForeignFields(route) ==
  UNION {SchemaFields(other) : other \in Routes \ {route}} \ SchemaFields(route)

\* the request was answered
Answered == req.pc = "done"

\* every provider call of the request was rejected: the three Puter endpoints of
\* a text route, the HuggingFace call of an image analysis
AllCallsFailed ==
  \/ req.route \in TextRoutes /\ req.rejected = Len(Endpoints(client))
  \/ req.route = "image-analyze" /\ req.source = "mock" /\ req.rejected = 1

\* what a text route sends when every endpoint call is rejected
FailureResponse(route, body, prompt) ==
  InnerCatch(route, body, TryBody(route, generateSmartResponse(prompt))).v

\* the content is JSON text of an object with every field of the route's schema
ValidInstance(route, content) ==
  /\ JSONparse(content).ok
  /\ SchemaFields(route) \subseteq Keys(JSONparse(content).v)

TopicKeywords == {"study style", "learning", "stress", "lifestyle", "roadmap", "course"}

NoTopicKeyword(text) == \A word \in TopicKeywords : ~includes(toLowerCase(text), word)

C2_OwnSchemaOnFailure ==
  (Answered /\ req.status = 200 /\ AllCallsFailed)
    => /\ SchemaFields(req.route) \subseteq Keys(req.response)
       /\ Keys(req.response) \cap ForeignFields(req.route) = {}

\* C3: on a JSON route, a provider answer whose content is no valid instance of
\* the route's schema gets the response a failed call gets, with every
\* required field.
C3_InvalidContentLikeFailure ==
  (Answered /\ req.route \in JsonRoutes /\ req.source = "provider"
     /\ ~ValidInstance(req.route, req.content))
    => /\ req.response = FailureResponse(req.route, req.body, req.prompt)
       /\ SchemaFields(req.route) \subseteq Keys(req.response)

\* C4: POST /ai/stress with every endpoint failing returns the route's static
\* fallback: level Medium, its 3 drivers and its 4 suggestions.
C4_StressStaticFallback ==
  (Answered /\ req.route = "stress" /\ AllCallsFailed) => req.response = StressMock

\* C5: POST /ai/study-style whose provider call succeeds with text that is not
\* JSON answers 200 with the route's study-style mock.
C5_NonJsonTextGetsMock ==
  (Answered /\ req.route = "study-style" /\ req.source = "provider"
     /\ IsStr(req.data) /\ ~JSONparse(req.data.v).ok)
    => (req.status = 200 /\ req.response = StudyStyleMock)

\* C5 witness: the first endpoint answered a study-style request with plain
\* text and the request was answered.
C5_Witness ==
  /\ Answered /\ req.route = "study-style" /\ req.source = "provider"
  /\ req.ep = 1 /\ req.data = Str(PlainText) /\ req.response = StudyStyleMock

\* C7: with no endpoint reachable, a chat message without topic keyword is
\* answered with the generic NOVA study-tips text.
C7_PlainChatGetsNovaText ==
  (Answered /\ req.route = "chat" /\ AllCallsFailed
     /\ NoTopicKeyword(ToText(Field(req.body, "message"))))
    => \/ req.response = Obj(<<<<"answer", Str(SmartNovaText)>>>>)
       \/ req.response = ChatMock(Field(req.body, "message"))

\* C8: with no endpoint reachable, the chat message "Can you help me build a
\* roadmap for my course?" is answered with the roadmap payload.
C8_RoadmapMessageGetsRoadmap ==
  (Answered /\ req.route = "chat" /\ AllCallsFailed
     /\ Field(req.body, "message") = Str(RoadmapMessage))
    => req.response = Obj(<<<<"answer", Str(StringifyText(SmartRoadmap))>>>>)


(***************************************************************************)
(* Properties of the direct-provider server (specification SpecDirect).    *)
(***************************************************************************)
\* C6: in the direct-provider server, a request whose route has its key set
\* and whose provider call is rejected, or answered with content the route
\* cannot read, is answered 200 with the route's mock.
C6_DirectFailureGetsMock ==
  (/\ dreq.pc = "done"
   /\ DirectConfigured(dreq.route)
   /\ dreq.route = "image-analyze" => dreq.file # Undefined
   /\ \/ dreq.rejected = 1
      \/ dreq.last = "success" /\ DirectTryBody(dreq.route, dreq.data).threw)
    => /\ dreq.status = 200
       /\ dreq.response = DirectMock(dreq.route, dreq.body)

(***************************************************************************)
(* Properties of the mock path (specification SpecMock).                   *)
(***************************************************************************)
\* the keyword categories in the order the claims give them
CategoryKeywords ==
  <<{"study style", "learning"}, {"stress", "lifestyle"},
    {"roadmap", "course"}, {"support", "coach"}>>

\* the rank of the first category given a predicate on ranks; one past the last
\* category when none matches
FirstOf(matches(_)) ==
  LET matched == {i \in DOMAIN CategoryKeywords : matches(i)}
  IN  IF matched = {} THEN Len(CategoryKeywords) + 1
      ELSE CHOOSE i \in matched : \A j \in matched : i <= j

\* the category a word of PromptWords spells, letter case aside
WordCategory(word) ==
  CASE word \in {"Study Style", "LEARNING"} -> 1
    [] word \in {"Stress", "lifestyle"} -> 2
    [] word \in {"ROADMAP", "Course"} -> 3
    [] word \in {"support", "Coach"} -> 4
    [] OTHER -> 5

\* the first category, in the fixed order, that a list of words touches
FirstCategory(words) ==
  FirstOf(LAMBDA i : \E n \in DOMAIN words : WordCategory(words[n]) = i)

\* the first category, in the fixed order, one of whose keywords occurs in a text
TextCategory(text) ==
  FirstOf(LAMBDA i : \E word \in CategoryKeywords[i] : includes(toLowerCase(text), word))

\* the payload of each category, and the default one
CategoryPayload(rank) ==
  CASE rank = 1 -> StringifyText(SmartStudyStyle)
    [] rank = 2 -> StringifyText(SmartStress)
    [] rank = 3 -> StringifyText(SmartRoadmap)
    [] rank = 4 -> SmartSupportText
    [] OTHER -> SmartNovaText

SmartCalls == {i \in DOMAIN mock : mock[i].fn = "generateSmartResponse"}
RouteMockCalls == {i \in DOMAIN mock : mock[i].fn = "mock"}

\* C9: generateSmartResponse returns the payload of the first category, in the
\* order study style/learning, stress/lifestyle, roadmap/course, support/coach,
\* that has a keyword in the prompt, whatever the order of the words in the
\* prompt and whatever their letter case.
C9_FirstCategoryWins ==
  \A i \in SmartCalls : mock[i].out = Str(CategoryPayload(FirstCategory(mock[i].words)))

\* C9 witness: the prompt "ROADMAP Stress", roadmap first and in capitals, was
\* answered with the stress payload.
C9_Witness ==
  \E i \in SmartCalls :
    /\ mock[i].words = <<"ROADMAP", "Stress">>
    /\ mock[i].out = Str(StringifyText(SmartStress))

\* the input category of a call as the claim reads it: the keyword category of
\* the prompt, and for a route-level mock that of the request's message
InputCategory(call) ==
  IF call.fn = "generateSmartResponse" THEN FirstCategory(call.words)
  ELSE IF call.route = "chat" THEN TextCategory(ToText(Field(call.input, "message")))
  ELSE Len(CategoryKeywords) + 1

OpenRouterClientNew(apiKey) ==
  [NoOpenRouter EXCEPT !.pc = "idle", !.apiKey = apiKey,
                       !.available = ~(~Truthy(apiKey)
                                          \/ apiKey = Str("your-openrouter-api-key-here"))]

\* what the catch block of a feature method returns
OpenRouterFallback(fn) ==
  CASE fn = "analyzeStudyStyle" ->
      Obj(<<
        <<"primary", Str("visual")>>,
        <<"secondary", Str("kinesthetic")>>,
        <<"probabilities", Obj(<<<<"visual", Num("45")>>, <<"auditory", Num("25")>>,
                                 <<"kinesthetic", Num("30")>>>>)>>,
        <<"tips", Arr(<<
          Str("Use visual aids like diagrams and charts"),
          Str("Create mind maps for complex topics"),
          Str("Take regular breaks during study sessions"),
          Str("Practice active recall techniques"),
          Str("Use color coding for organization")>>)>>>>)
    [] fn = "analyzeStress" ->
      Obj(<<
        <<"level", Str("Medium")>>,
        <<"score", Num("65")>>,
        <<"drivers", Arr(<<Str("Academic pressure"), Str("Time management"),
                           Str("Sleep quality")>>)>>,
        <<"suggestions", Arr(<<
          Str("Establish a consistent sleep schedule"),
          Str("Practice deep breathing exercises"),
          Str("Break large tasks into smaller steps"),
          Str("Schedule regular physical activity"),
          Str("Consider mindfulness meditation")>>)>>>>)
    [] fn = "generateStudyRoadmap" ->
      Obj(<<
        <<"roadmap", Arr(<<
          Obj(<<
            <<"week", Num("1")>>,
            <<"topics", Arr(<<Str("Course Introduction"), Str("Basic Concepts"),
                              Str("Terminology")>>)>>,
            <<"activities", Arr(<<Str("Read introductory materials"),
                                  Str("Complete vocabulary exercises"),
                                  Str("Take initial assessment")>>)>>>>),
          Obj(<<
            <<"week", Num("2")>>,
            <<"topics", Arr(<<Str("Fundamental Principles"), Str("Core Theory")>>)>>,
            <<"activities", Arr(<<Str("Study core concepts"), Str("Practice basic exercises"),
                                  Str("Join study group")>>)>>>>),
          Obj(<<
            <<"week", Num("3")>>,
            <<"topics", Arr(<<Str("Applied Knowledge"), Str("Practical Examples")>>)>>,
            <<"activities", Arr(<<Str("Work on practice problems"), Str("Complete assignments"),
                                  Str("Review progress")>>)>>>>)>>)>>,
        <<"mindmap", Str("The course structure flows from foundational concepts in weeks 1-2, building to applied knowledge in week 3 and beyond. Core principles connect to practical applications, with regular assessment and review cycles to reinforce learning.")>>>>)
    [] fn = "provideChatResponse" ->
      Obj(<<<<"response", Str("I'm here to help with your studies! While I'm having some technical difficulties right now, I'd be happy to assist you with study strategies, time management, or any academic questions you have. What specific topic would you like help with?")>>>>)
    [] fn = "provideSupportResponse" ->
      Obj(<<<<"response", Str("I understand you're going through a challenging time. Remember that it's completely normal to feel overwhelmed sometimes. Take things one step at a time, and don't hesitate to reach out to friends, family, or counseling services when you need support. You're stronger than you think, and this difficult period will pass.")>>>>)

\* the feature methods and the first argument a caller passes to each
OpenRouterCalls ==
  ({"analyzeStudyStyle"} \X StudyBodies) \cup ({"analyzeStress"} \X StressBodies)
    \cup ({"generateStudyRoadmap"} \X {Str("Machine Learning")})
    \cup ({"provideChatResponse", "provideSupportResponse"} \X {Str(PlainMessage)})

\* a feature method's try block after generateResponse returned content
OpenRouterTryBody(fn, content) ==
  IF content.threw THEN Thrown
  ELSE IF fn \in {"analyzeStudyStyle", "analyzeStress", "generateStudyRoadmap"}
    THEN ParsedOrThrown(JSONparse(ToText(content.v)))
  ELSE Returned(Obj(<<<<"response", content.v>>>>))

\* a feature method's try/catch: the fallback for whatever was thrown inside
OpenRouterCatch(fn, attempt) ==
  IF attempt.threw THEN Returned(OpenRouterFallback(fn)) ELSE attempt

\* the client were it to post whatever its availability
GenerateResponsePostsAnyway(c) == TRUE

\* generateResponse goes on to axios.post only when the client is available
GenerateResponsePosts(c) == c.available

\* a feature method is called: generateResponse throws at once when the client
\* is not available, and posts to OpenRouter otherwise
OpenRouterCall(fn, arg) ==
  /\ orc.pc = "idle"
  /\ orc' = IF GenerateResponsePosts(orc)
              THEN [orc EXCEPT !.pc = "post", !.fn = fn, !.arg = arg, !.posts = orc.posts + 1]
              ELSE [orc EXCEPT !.pc = "done", !.fn = fn, !.arg = arg,
                               !.result = OpenRouterCatch(fn, Thrown)]
  /\ UNCHANGED <<client, hasHuggingFace, hasOpenAI, history, req, dreq, mock, pcall, timer, app, signup, auth>>

\* the axios.post rejects: generateResponse rethrows, the method falls back
OpenRouterPostFails(kind) ==
  /\ orc.pc = "post"
  /\ orc' = [orc EXCEPT !.pc = "done", !.result = OpenRouterCatch(orc.fn, Thrown)]
  /\ UNCHANGED <<client, hasHuggingFace, hasOpenAI, history, req, dreq, mock, pcall, timer, app, signup, auth>>

\* the axios.post resolves with a 2xx answer
OpenRouterPostAnswers(data) ==
  /\ orc.pc = "post"
  /\ orc' = [orc EXCEPT !.pc = "done",
                        !.result = OpenRouterCatch(orc.fn,
                                     OpenRouterTryBody(orc.fn, DirectContent(data)))]
  /\ UNCHANGED <<client, hasHuggingFace, hasOpenAI, history, req, dreq, mock, pcall, timer, app, signup, auth>>

InitProviders ==
  /\ client = PuterClientNew
  /\ hasHuggingFace \in BOOLEAN
  /\ hasOpenAI = FALSE
  /\ history = <<>>
  /\ req = Idle
  /\ dreq = Idle
  /\ mock = <<>>
  /\ pcall = NoCall
  /\ orc \in {OpenRouterClientNew(apiKey) :
               apiKey \in {Undefined, Str(""), Str("your-openrouter-api-key-here"),
                           Str("sk-or-v1-0123")}}
  /\ timer = BreathingTimerNew
  /\ app = AppNew
  /\ signup = NoSignups
  /\ auth = NoHeaders

NextProviders ==
  \/ \E c \in OpenRouterCalls : OpenRouterCall(c[1], c[2])
  \/ \E kind \in UntimedFailures : OpenRouterPostFails(kind)
  \/ \E data \in OpenAIBodies : OpenRouterPostAnswers(data)
  \/ \E userId \in Users, file \in RequestFiles("image-analyze") :
       Receive("image-analyze", userId, Obj(<<>>), file, TRUE)
  \/ \E kind \in UntimedFailures : HuggingFaceFails(kind)
  \/ \E data \in HuggingFaceBodies : HuggingFaceAnswers(data)
  \/ \E insertOk \in BOOLEAN : SaveAndRespond(insertOk)

SpecProviders == InitProviders /\ [][NextProviders]_vars

(***************************************************************************)
(* backend/puterClient.js, lines 23-100: chat and chatWithMessages as      *)
(* their caller sees them.  A behaviour of SpecClient follows one call     *)
(* from its start to the promise settling; pcall.log holds the requests    *)
(* the call has posted, each with the timeout it was given and how it      *)
(* ended, and pcall.elapsed the milliseconds the call has been awaiting.   *)
(***************************************************************************)
TimeoutMs == 15000

\* the promise chat resolves with
ChatResult(content) ==
  Returned(Obj(<<<<"message", Obj(<<<<"content", Str(content)>>>>)>>>>))

\* the request chat posts to endpoint ep
Posted(c, ep) ==
  [c EXCEPT !.pc = "post", !.ep = ep,
            !.log = Append(c.log, [url |-> Endpoints(client)[ep], timeout |-> TimeoutMs,
                                   outcome |-> "pending"])]

\* the request chat awaits has ended that way after ms milliseconds
Ended(c, outcome, ms) ==
  [c EXCEPT !.log[Len(c.log)].outcome = outcome, !.elapsed = c.elapsed + ms]

\* chat from its first line to its first await: `prompt.substring` of lines 28
\* and 75 and `prompt.toLowerCase` of generateSmartResponse in the outer catch
\* throw a TypeError for a prompt that is no string, and the promise rejects
chatStart(c, prompt) ==
  IF ~IsStr(prompt) THEN [c EXCEPT !.pc = "done", !.prompt = prompt, !.result = Thrown]
  ELSE IF client.fallbackToMock
    THEN [c EXCEPT !.pc = "done", !.prompt = prompt,
                   !.result = ChatResult(generateSmartResponse(prompt.v))]
  ELSE Posted([c EXCEPT !.prompt = prompt], 1)

\* chat after an endpoint's try block threw: `continue`, and past the last
\* endpoint the fallback of lines 67-80
chatAfterThrow(c) ==
  IF c.ep < Len(Endpoints(client)) THEN Posted(c, c.ep + 1)
  ELSE [c EXCEPT !.pc = "done", !.result = ChatResult(generateSmartResponse(c.prompt.v))]

\* chat after an endpoint answered with a 2xx status
chatAfterAnswer(c, content) ==
  IF content.threw THEN chatAfterThrow(c)
  ELSE [c EXCEPT !.pc = "done", !.result = ChatResult(content.v)]

\* lines 93-94 of chatWithMessages: the prompt, or the TypeError of reading
\* `.content` of undefined or null
lastMessagePrompt(messages) ==
  IF Len(messages.v) = 0 \/ messages.v[Len(messages.v)].k \in {"null", "undef"} THEN Thrown
  ELSE IF Truthy(Field(messages.v[Len(messages.v)], "content"))
    THEN Returned(Field(messages.v[Len(messages.v)], "content"))
  ELSE Returned(messages.v[Len(messages.v)])

\* the prompts a caller passes to chat
ClientPrompts == {Str(PlainMessage), Str(RoadmapMessage), Str("")}

\* the message sequences a caller passes to chatWithMessages
ClientMessages ==
  {Arr(<<>>),
   Arr(<<Obj(<<<<"role", Str("user")>>, <<"content", Str(PlainMessage)>>>>)>>),
   Arr(<<Obj(<<<<"role", Str("system")>>, <<"content", Str("You are NOVA.")>>>>),
         Obj(<<<<"role", Str("user")>>, <<"content", Str(RoadmapMessage)>>>>)>>),
   Arr(<<Str(PlainMessage)>>),
   Arr(<<Obj(<<<<"role", Str("user")>>, <<"content", Str("")>>>>)>>)}

\* had initialize switched the client to its mock
initializeFallsBack(c) == [c EXCEPT !.fallbackToMock = TRUE]

\* initialize: logs and resolves
initialize(c) == c

\* initialize() is called, before, between or after the steps of a chat call
Initialize ==
  /\ client' = initialize(client)
  /\ UNCHANGED <<hasHuggingFace, hasOpenAI, history, req, dreq, mock, pcall, orc, timer, app, signup, auth>>

\* chat(prompt) is called
Chat(prompt) ==
  /\ pcall.pc = "idle"
  /\ pcall' = chatStart([pcall EXCEPT !.fn = "chat", !.arg = prompt], prompt)
  /\ UNCHANGED <<client, hasHuggingFace, hasOpenAI, history, req, dreq, mock, orc, timer, app, signup, auth>>

\* chatWithMessages(messages) is called: what its try block throws is rethrown
ChatWithMessages(messages) ==
  /\ pcall.pc = "idle"
  /\ LET c == [pcall EXCEPT !.fn = "chatWithMessages", !.arg = messages]
     IN  pcall' = IF lastMessagePrompt(messages).threw
                    THEN [c EXCEPT !.pc = "done", !.result = Thrown]
                    ELSE chatStart(c, lastMessagePrompt(messages).v)
  /\ UNCHANGED <<client, hasHuggingFace, hasOpenAI, history, req, dreq, mock, orc, timer, app, signup, auth>>

\* the axios.post chat awaits rejects after ms milliseconds: at once or later
\* for a network error or a status outside 2xx, at the timeout for a timeout
PostFails(kind, ms) ==
  /\ pcall.pc = "post"
  /\ IF kind = "timeout" THEN ms = pcall.log[Len(pcall.log)].timeout
     ELSE ms < pcall.log[Len(pcall.log)].timeout
  /\ pcall' = chatAfterThrow(Ended(pcall, kind, ms))
  /\ UNCHANGED <<client, hasHuggingFace, hasOpenAI, history, req, dreq, mock, orc, timer, app, signup, auth>>

\* the axios.post chat awaits resolves with a 2xx answer after ms milliseconds
PostAnswers(data, ms) ==
  /\ pcall.pc = "post"
  /\ ms < pcall.log[Len(pcall.log)].timeout
  /\ pcall' = chatAfterAnswer(Ended(pcall, "success", ms), chatContent(data))
  /\ UNCHANGED <<client, hasHuggingFace, hasOpenAI, history, req, dreq, mock, orc, timer, app, signup, auth>>

InitClient ==
  /\ client = PuterClientNew
  /\ hasHuggingFace = FALSE
  /\ hasOpenAI = FALSE
  /\ history = <<>>
  /\ req = Idle
  /\ dreq = Idle
  /\ mock = <<>>
  /\ pcall = NoCall
  /\ orc = NoOpenRouter
  /\ timer = BreathingTimerNew
  /\ app = AppNew
  /\ signup = NoSignups
  /\ auth = NoHeaders

NextClient ==
  \/ \E prompt \in ClientPrompts : Chat(prompt)
  \/ \E messages \in ClientMessages : ChatWithMessages(messages)
  \/ \E kind \in CallFailures, ms \in {100, TimeoutMs} : PostFails(kind, ms)
  \/ \E data \in ProviderBodies, ms \in {100} : PostAnswers(data, ms)

SpecClient == InitClient /\ [][NextClient]_vars

(***************************************************************************)
(* C11: an unconfigured provider is never called.                          *)
(***************************************************************************)
\* the keys OpenRouterClient is built with when it is not configured
Unconfigured(apiKey) ==
  apiKey \in {Undefined, Str(""), Str("your-openrouter-api-key-here")}

\* C11: a client built with no API key or with the placeholder key is not
\* available, has posted nothing, and what its method returned is the method's
\* fallback; without HF_API_KEY the image route has made no HuggingFace call.
C11_UnconfiguredNeverCalled ==
  /\ Unconfigured(orc.apiKey) =>
       /\ ~orc.available
       /\ orc.posts = 0 /\ orc.pc # "post"
       /\ orc.pc = "done" => orc.result = Returned(OpenRouterFallback(orc.fn))
  /\ ~hasHuggingFace => req.pc # "hf" /\ req.last = "none" /\ req.source # "provider"

\* C11 witness: a method of a client built with the placeholder key has
\* returned, and an image analysis without HF_API_KEY has been answered.
C11_Witness ==
  /\ orc.apiKey = Str("your-openrouter-api-key-here") /\ orc.pc = "done" /\ orc.fn = "analyzeStress"
  /\ ~hasHuggingFace /\ req.pc = "done" /\ req.status = 200

(***************************************************************************)
(* C12, C14, C19, C20: PuterClient.chat and chatWithMessages at their      *)
(* boundary.                                                               *)
(***************************************************************************)
\* C12: a call of chat or chatWithMessages that has settled has resolved, with
\* a {message: {content}} value whose content is a string; it has not rejected.
C12_NeverThrowsPastBoundary ==
  pcall.pc = "done" =>
    /\ ~pcall.result.threw
    /\ IsStr(Field(Field(pcall.result.v, "message"), "content"))

\* C14: a call that ended in the mock response with an endpoint request timed
\* out has taken at most one timeout period and a second more.
C14_MockWithinOneTimeout ==
  (/\ pcall.pc = "done"
   /\ pcall.log # <<>>
   /\ \A i \in 1..Len(pcall.log) : pcall.log[i].outcome \in CallFailures
   /\ \E i \in 1..Len(pcall.log) : pcall.log[i].outcome = "timeout")
    => pcall.elapsed <= TimeoutMs + 1000

\* C19: the requests of a call go to the three endpoints in their fixed order,
\* each at most once, the next one only after the one before it failed, and
\* none after one that succeeded.
C19_EndpointsInOrderUntilSuccess ==
  /\ Len(pcall.log) <= 3
  /\ \A i \in 1..Len(pcall.log) :
       pcall.log[i].url = <<"https://api.puter.com/ai/chat",
                            "https://api.puter.com/v1/chat/completions",
                            "https://puter.com/api/ai/chat">>[i]
  /\ \A i \in 1..(Len(pcall.log) - 1) : pcall.log[i].outcome \in CallFailures

\* C20: a request that succeeded is the last the call makes, and once the call
\* has settled it has resolved with content for its prompt.
C20_AdvanceOnlyOnCallFailure ==
  \A i \in 1..Len(pcall.log) :
    pcall.log[i].outcome = "success" =>
      /\ i = Len(pcall.log)
      /\ pcall.pc = "done" /\ ~pcall.result.threw

(***************************************************************************)
(* C13: every accepted feature request is answered.  SpecLive adds to Spec *)
(* what the code's scheduling guarantees: a request posted with a timeout  *)
(* option is rejected by its timer if nothing else ends it, and the query  *)
(* of saveHistory settles.  The HuggingFace request is posted without a    *)
(* timeout option: nothing makes it end.                                   *)
(***************************************************************************)
SpecLive ==
  /\ Spec
  /\ WF_vars(EndpointFails("timeout"))
  /\ WF_vars(\E insertOk \in BOOLEAN : SaveAndRespond(insertOk))

\* C13: every request a route has accepted is eventually answered.
C13_EveryRequestAnswered == (req.pc # "idle") ~> (req.pc = "done")

C16_SupportDisclaimer ==
  (Answered /\ req.route = "support" /\ req.status = 200) =>
    /\ {"response", "disclaimer"} \subseteq Keys(req.response)
    /\ Field(req.response, "disclaimer") = Field(SupportMock, "disclaimer")
    /\ includes(Field(req.response, "disclaimer").v, "not medical care")

\* C16 witness: a support request answered 200 with the provider's text.
C16_Witness ==
  /\ Answered /\ req.route = "support" /\ req.status = 200
  /\ req.source = "provider" /\ Field(req.response, "response") = Str(PlainText)

\* the labels of a response, in order
Labels(response) ==
  [i \in 1..Len(Field(response, "labels").v) |->
     Field(Field(response, "labels").v[i], "label").v]

HistoryLimit == 100

MaxStored == 3

\* the SELECT had it no WHERE clause
historyRowsOfAllUsers(table, userId) ==
  [i \in 1..Min(HistoryLimit, Len(table)) |-> RowObject(Reverse(table)[i])]

\* the SELECT of GET /history: the user's rows, newest first, at most 100
historyRows(table, userId) ==
  LET own == Reverse(SelectSeq(table, LAMBDA row : row.user_id = userId))
  IN  [i \in 1..Min(HistoryLimit, Len(own)) |-> RowObject(own[i])]

\* the record an image analysis answered with the mock stores for userId
StoredRecord(table, userId) ==
  saveHistory(table, userId, "image-analyze",
              HistoryPrompt("image-analyze", Obj(<<>>), ImageFile), ImageMock, TRUE)

\* an image analysis of userId has stored its record
StoreRecord(userId) ==
  /\ req.pc = "idle"
  /\ \/ Len(history) < MaxStored
     \/ Len(history) \in (HistoryLimit - 1)..(HistoryLimit + MaxStored - 2)
  /\ history' = StoredRecord(history, userId)
  /\ UNCHANGED <<client, hasHuggingFace, hasOpenAI, req, dreq, mock, pcall, orc, timer, app, signup, auth>>

\* GET /history with a valid token of userId
GetHistory(userId, queryOk) ==
  /\ req.pc = "idle"
  /\ req' = IF queryOk
              THEN Send([Idle EXCEPT !.route = "history", !.user = userId], 200,
                        Obj(<<<<"history", Arr(historyRows(history, userId))>>>>))
              ELSE Send([Idle EXCEPT !.route = "history", !.user = userId], 500,
                        InternalServerError)
  /\ UNCHANGED <<client, hasHuggingFace, hasOpenAI, history, dreq, mock, pcall, orc, timer, app, signup, auth>>

InitHistory ==
  /\ client = PuterClientNew
  /\ hasHuggingFace = FALSE
  /\ hasOpenAI = FALSE
  /\ history \in {<<>>} \cup
       {[i \in 1..(HistoryLimit - 1) |->
           [StoredRecord(<<>>, userId)[1] EXCEPT !.id = i, !.created_at = i]] :
          userId \in Users}
  /\ req = Idle
  /\ dreq = Idle
  /\ mock = <<>>
  /\ pcall = NoCall
  /\ orc = NoOpenRouter
  /\ timer = BreathingTimerNew
  /\ app = AppNew
  /\ signup = NoSignups
  /\ auth = NoHeaders

NextHistory ==
  \/ \E userId \in Users : StoreRecord(userId)
  \/ \E userId \in Users, queryOk \in BOOLEAN : GetHistory(userId, queryOk)
  \/ \E userId \in Users, queryOk \in BOOLEAN :
       Receive("chat", userId, Obj(<<<<"message", Str(PlainMessage)>>>>), Undefined, queryOk)

SpecHistory == InitHistory /\ [][NextHistory]_vars

(***************************************************************************)
(* C18: GET /history returns the caller's own rows, newest first, at most  *)
(* 100.                                                                    *)
(***************************************************************************)
\* the rows of a 200 response of GET /history
Returned200Rows == Field(req.response, "history").v

\* the place in the table of the i-th row returned
RowPlace(i) ==
  CHOOSE j \in 1..Len(history) : ToString(history[j].id) = Field(Returned200Rows[i], "id").v

\* C18: the rows GET /history returns are rows of the authenticated user,
\* newest first, at most 100, and as many as the user has up to that.
C18_OwnRowsNewestFirst ==
  (Answered /\ req.route = "history" /\ req.status = 200) =>
    /\ Len(Returned200Rows) <= 100
    /\ \A i \in 1..Len(Returned200Rows) : history[RowPlace(i)].user_id = req.user
    /\ \A i \in 1..(Len(Returned200Rows) - 1) :
         history[RowPlace(i)].created_at > history[RowPlace(i + 1)].created_at
    /\ Len(Returned200Rows) < 100 =>
         Len(Returned200Rows) = Cardinality({j \in 1..Len(history) : history[j].user_id = req.user})

\* C18 witness: the first user, with 101 rows stored around a row of the second
\* user, was returned 100 rows.
C18_Witness ==
  /\ Answered /\ req.route = "history" /\ req.status = 200 /\ req.user = 1
  /\ Len(history) = 102 /\ history[101].user_id = 2
  /\ Len(Returned200Rows) = 100


(***************************************************************************)
(* C21: the history that POST /ai/chat puts into its prompt.               *)
(***************************************************************************)
\* the place in the table of the caller's i-th newest row
NewestOwnPlace(i) ==
  CHOOSE j \in 1..Len(history) :
    /\ history[j].user_id = req.user
    /\ Cardinality({k \in 1..Len(history) :
                      /\ history[k].user_id = req.user
                      /\ history[k].created_at > history[j].created_at}) = i - 1

\* C21: the prompt of POST /ai/chat holds the caller's own three newest rows
\* (all of them when there are fewer), newest first, and no row more; a caller
\* without rows gets the fixed text 'No recent activity available.' instead.
C21_ThreeNewestOwnRows ==
  LET own == {j \in 1..Len(history) : history[j].user_id = req.user}
      shown == Min(3, Cardinality(own))
  IN  (req.route = "chat" /\ req.pc = "call") =>
        /\ req.context # <<>> =>
              /\ includes(req.prompt,
                          "User's recent activity: "
                            \o StringifyText(Arr([i \in 1..shown |->
                                                    RowObject(history[NewestOwnPlace(i)])]))
                            \o "\n\nUser question: ")
              /\ Cardinality({i \in 1..Len(req.prompt) :
                                StartsAt(req.prompt, i, StringifyText(Str("id")) \o ":")})
                    = shown
        /\ own = {} =>
              /\ includes(req.prompt, "No recent activity available.")
              /\ ~includes(req.prompt, "User's recent activity")

\* C21 witness: the first user, with 100 rows stored around a row of the
\* second user, asked; ten rows were read and the prompt was built.
C21_Witness ==
  /\ req.route = "chat" /\ req.pc = "call" /\ req.user = 1
  /\ Len(history) = 101 /\ history[100].user_id = 2 /\ history[101].user_id = 1
  /\ Len(req.context) = 10


(***************************************************************************)
(* C22: the PuterClient singleton is never written after construction.     *)
(* Two chat calls share it here, one made by the handler of POST /ai/chat  *)
(* and one made directly, and their steps interleave freely.               *)
(***************************************************************************)
NextConcurrent ==
  \/ Chat(Str(PlainMessage))
  \/ PostFails("network", 100)
  \/ \E data \in {Null, Str(PlainText)} : PostAnswers(data, 100)
  \/ Initialize
  \/ Receive("chat", 1, Obj(<<<<"message", Str(RoadmapMessage)>>>>), Undefined, TRUE)
  \/ EndpointFails("network")
  \/ \E data \in {Null, Obj(<<<<"error", Str("model overloaded")>>>>)} : EndpointAnswers(data)
  \/ SaveAndRespond(TRUE)

SpecConcurrent == InitClient /\ [][NextConcurrent]_vars

\* C22: initialized, apiBaseUrl and fallbackToMock stay as the constructor set
\* them through every step of chat, chatWithMessages and initialize, and what a
\* call settles with is fixed by its own argument and its own endpoint
\* attempts: a rejection for an argument that yields no string prompt, else the
\* three endpoints were tried from the first one on and the call resolves with
\* generateSmartResponse of its own prompt after three failed attempts and with
\* the text of its own last answer otherwise, the handler's call likewise.
C22_ClientNeverWritten ==
  /\ client = PuterClientNew
  /\ pcall.pc = "done" =>
        IF pcall.result.threw
          THEN pcall.log = <<>> /\ ~IsStr(pcall.prompt)
          ELSE /\ IsStr(pcall.prompt)
               /\ Len(pcall.log) \in 1..Len(Endpoints(PuterClientNew))
               /\ \A i \in 1..Len(pcall.log) : pcall.log[i].url = Endpoints(PuterClientNew)[i]
               /\ pcall.log[Len(pcall.log)].outcome \in CallFailures =>
                     /\ Len(pcall.log) = Len(Endpoints(PuterClientNew))
                     /\ pcall.result = ChatResult(generateSmartResponse(pcall.prompt.v))
  /\ req.pc \in {"save", "done"} =>
        /\ req.source = "provider" =>
              req.last = "success" /\ Returned(req.content) = chatContent(req.data)
        /\ req.source # "provider" =>
              /\ req.source = "smart" /\ req.ep = Len(Endpoints(PuterClientNew))
              /\ req.content = generateSmartResponse(req.prompt)

\* C22 witness: while the handler's call was at its third endpoint, the direct
\* call had its first attempt rejected and its second answered.
C22_Witness ==
  /\ req.pc = "call" /\ req.ep = 3
  /\ pcall.pc = "done" /\ ~pcall.result.threw /\ Len(pcall.log) = 2
  /\ pcall.log[1].outcome = "network" /\ pcall.log[2].outcome = "success"


(***************************************************************************)
(* The breathing timer of the Rehab page (frontend/src/pages/Rehab.jsx).   *)
(***************************************************************************)
MaxCycles == 6

\* had the hold phase lasted as long as the exhale
phasesHoldSix ==
  [inhale |-> [duration |-> 4, next |-> "hold"],
   hold |-> [duration |-> 6, next |-> "exhale"],
   exhale |-> [duration |-> 6, next |-> "inhale"]]

phases ==
  [inhale |-> [duration |-> 4, next |-> "hold"],
   hold |-> [duration |-> 4, next |-> "exhale"],
   exhale |-> [duration |-> 6, next |-> "inhale"]]

\* the Start button, rendered while the timer is not active
startTimer ==
  /\ ~timer.isActive
  /\ timer' = [timer EXCEPT !.isActive = TRUE, !.phase = "inhale", !.timeLeft = 4,
                            !.cycle = 0, !.rounds = 0]
  /\ UNCHANGED <<client, hasHuggingFace, hasOpenAI, history, req, dreq, mock, pcall, orc, app, signup, auth>>

\* the Stop button, rendered while the timer is active
stopTimer ==
  /\ timer.isActive
  /\ timer' = [timer EXCEPT !.isActive = FALSE, !.timeLeft = 4, !.phase = "inhale"]
  /\ UNCHANGED <<client, hasHuggingFace, hasOpenAI, history, req, dreq, mock, pcall, orc, app, signup, auth>>

\* the interval the effect set fires: setTimeLeft(timeLeft - 1), and the render
\* that follows clears it
IntervalFires ==
  /\ timer.isActive /\ timer.timeLeft > 0
  /\ timer' = [timer EXCEPT !.timeLeft = @ - 1]
  /\ UNCHANGED <<client, hasHuggingFace, hasOpenAI, history, req, dreq, mock, pcall, orc, app, signup, auth>>

\* the effect of a render with timeLeft 0: the next phase, its duration, and one
\* cycle more when the next phase is inhale
EffectAtZero ==
  /\ timer.isActive /\ timer.timeLeft = 0
  /\ phases[timer.phase].next = "inhale" => timer.cycle < MaxCycles
  /\ timer' = [timer EXCEPT
                 !.phase = phases[timer.phase].next,
                 !.timeLeft = phases[phases[timer.phase].next].duration,
                 !.cycle = IF phases[timer.phase].next = "inhale" THEN @ + 1 ELSE @,
                 !.rounds = IF timer.phase = "exhale" THEN @ + 1 ELSE @]
  /\ UNCHANGED <<client, hasHuggingFace, hasOpenAI, history, req, dreq, mock, pcall, orc, app, signup, auth>>

NextTimer == startTimer \/ stopTimer \/ IntervalFires \/ EffectAtZero

SpecTimer == InitClient /\ [][NextTimer]_vars

(***************************************************************************)
(* C23: the phases, countdowns and cycle count of the breathing timer.     *)
(***************************************************************************)
\* C23: timeLeft is between 0 and the duration of the current phase (4 for
\* inhale and hold, 6 for exhale) and cycle is the number of rounds completed
\* since the last start; a step of the running timer either takes 1 off a
\* positive timeLeft and leaves phase and cycle alone, or at 0 moves inhale to
\* hold, hold to exhale or exhale to inhale with timeLeft at 4, 4 or 6 again,
\* adding 1 to cycle after exhale only; between steps of a timer that is not
\* active phase, timeLeft and cycle stay as they are.
C23_BreathingCycle ==
  /\ [](/\ timer.phase \in {"inhale", "hold", "exhale"}
        /\ timer.timeLeft \in 0..(IF timer.phase = "exhale" THEN 6 ELSE 4)
        /\ timer.cycle = timer.rounds)
  /\ [][/\ (timer.isActive /\ timer'.isActive) =>
             \/ /\ timer.timeLeft > 0
                /\ timer'.timeLeft = timer.timeLeft - 1
                /\ timer'.phase = timer.phase /\ timer'.cycle = timer.cycle
             \/ /\ timer.timeLeft = 0
                /\ <<timer.phase, timer'.phase, timer'.timeLeft, timer'.cycle - timer.cycle>>
                     \in {<<"inhale", "hold", 4, 0>>, <<"hold", "exhale", 6, 0>>,
                          <<"exhale", "inhale", 4, 1>>}
        /\ (~timer.isActive /\ ~timer'.isActive) =>
             /\ timer'.phase = timer.phase /\ timer'.timeLeft = timer.timeLeft
             /\ timer'.cycle = timer.cycle]_vars

\* C23 witness: the running timer is in the hold phase of its third round.
C23_Witness ==
  timer.isActive /\ timer.phase = "hold" /\ timer.timeLeft = 2 /\ timer.cycle = 2


(***************************************************************************)
(* The frontend App (frontend/src/main.jsx): authentication state, the     *)
(* two localStorage items and the routes.                                  *)
(***************************************************************************)
\* had the rehab route rendered its page whoever asks
RouteElementOpenRehab(path, user) ==
  CASE path = "/rehab" -> [page |-> "Rehab", to |-> ""]
    [] path = "/login" -> [page |-> "Login", to |-> ""]
    [] path = "/signup" -> [page |-> "Signup", to |-> ""]
    [] OTHER -> [page |-> "", to |-> "/login"]

\* the element of the route that matches path: a page, or a Navigate
RouteElement(path, user) ==
  CASE path \in {"/login", "/signup"} ->
         IF Truthy(user) THEN [page |-> "", to |-> "/dashboard"]
         ELSE [page |-> IF path = "/login" THEN "Login" ELSE "Signup", to |-> ""]
    [] path = "/dashboard" ->
         IF Truthy(user) THEN [page |-> "Dashboard", to |-> ""]
         ELSE [page |-> "", to |-> "/login"]
    [] path = "/study-style" ->
         IF Truthy(user) THEN [page |-> "StudyStyleQuiz", to |-> ""]
         ELSE [page |-> "", to |-> "/login"]
    [] path = "/stress-check" ->
         IF Truthy(user) THEN [page |-> "StressCheck", to |-> ""]
         ELSE [page |-> "", to |-> "/login"]
    [] path = "/genie-guide" ->
         IF Truthy(user) THEN [page |-> "GenieGuide", to |-> ""]
         ELSE [page |-> "", to |-> "/login"]
    [] path = "/nova-chat" ->
         IF Truthy(user) THEN [page |-> "NovaChat", to |-> ""]
         ELSE [page |-> "", to |-> "/login"]
    [] path = "/support" ->
         IF Truthy(user) THEN [page |-> "SupportCoach", to |-> ""]
         ELSE [page |-> "", to |-> "/login"]
    [] path = "/rehab" ->
         IF Truthy(user) THEN [page |-> "Rehab", to |-> ""]
         ELSE [page |-> "", to |-> "/login"]
    [] path = "/" ->
         [page |-> "", to |-> IF Truthy(user) THEN "/dashboard" ELSE "/login"]

AppPaths ==
  {"/login", "/signup", "/dashboard", "/study-style", "/stress-check", "/genie-guide",
   "/nova-chat", "/support", "/rehab", "/"}

\* App's render: 'Loading...', or the matching route's page, following a
\* Navigate to the route it names
render(a) ==
  IF a.loading THEN [a EXCEPT !.page = "Loading"]
  ELSE IF RouteElement(a.path, a.user).to # ""
    THEN [a EXCEPT !.path = RouteElement(a.path, a.user).to,
                   !.page = RouteElement(RouteElement(a.path, a.user).to, a.user).page]
  ELSE [a EXCEPT !.page = RouteElement(a.path, a.user).page]

\* the mount effect of App: the stored user when both items are stored; a
\* SyntaxError of JSON.parse leaves the effect before setLoading(false) and
\* React unmounts the App
MountEffect ==
  /\ app.loading /\ app.page = "Loading"
  /\ app' = IF Truthy(app.token) /\ Truthy(app.userData)
               THEN IF JSONparse(app.userData.v).ok
                      THEN render([app EXCEPT !.user = JSONparse(app.userData.v).v,
                                              !.loading = FALSE])
                      ELSE [app EXCEPT !.page = ""]
               ELSE render([app EXCEPT !.loading = FALSE])
  /\ timer' = BreathingTimerNew
  /\ UNCHANGED <<client, hasHuggingFace, hasOpenAI, history, req, dreq, mock, pcall, orc, signup, auth>>

\* handleLogin, which Login and Signup call with the user and the token of a
\* 2xx answer of /auth/login or /auth/signup
handleLogin(userData, token) ==
  /\ app.page \in {"Login", "Signup"}
  /\ app' = render([app EXCEPT !.token = Str(token),
                               !.userData = Str(StringifyText(userData)),
                               !.user = userData])
  /\ timer' = BreathingTimerNew
  /\ UNCHANGED <<client, hasHuggingFace, hasOpenAI, history, req, dreq, mock, pcall, orc, signup, auth>>

\* handleLogout, the Logout button of the Navbar
handleLogout ==
  /\ ~app.loading /\ Truthy(app.user)
  /\ app' = render([app EXCEPT !.token = Null, !.userData = Null, !.user = Null])
  /\ timer' = BreathingTimerNew
  /\ UNCHANGED <<client, hasHuggingFace, hasOpenAI, history, req, dreq, mock, pcall, orc, signup, auth>>

\* a link to path is followed; leaving the Rehab page unmounts its timer
Visit(path) ==
  /\ ~app.loading
  /\ app' = render([app EXCEPT !.path = path])
  /\ timer' = IF app.page = "Rehab" /\ app'.page = "Rehab" THEN timer ELSE BreathingTimerNew
  /\ UNCHANGED <<client, hasHuggingFace, hasOpenAI, history, req, dreq, mock, pcall, orc, signup, auth>>

\* the page is loaded again at path: localStorage is what remains
Reload(path) ==
  /\ app' = [AppNew EXCEPT !.token = app.token, !.userData = app.userData, !.path = path]
  /\ timer' = BreathingTimerNew
  /\ UNCHANGED <<client, hasHuggingFace, hasOpenAI, history, req, dreq, mock, pcall, orc, signup, auth>>

NextApp ==
  \/ MountEffect
  \/ \E u \in Users :
       handleLogin(Obj(<<<<"id", Str(ToString(u))>>, <<"username", Str("user" \o ToString(u))>>>>),
                   "jwt." \o ToString(u))
  \/ handleLogout
  \/ \E path \in AppPaths : Visit(path)
  \/ \E path \in AppPaths : Reload(path)
  \/ app.page = "Rehab" /\ NextTimer

SpecApp == InitClient /\ [][NextApp]_vars

(***************************************************************************)
(* C24: authentication state, localStorage and the protected routes.       *)
(***************************************************************************)
\* C24: once the App has mounted, user is non-null exactly when both 'token'
\* and 'user' are stored in localStorage; a feature page is rendered only with a
\* non-null user, and without one the location is /login (or /signup) and the
\* login (or signup) form is what is rendered.
C24_PagesNeedUser ==
  /\ ~app.loading =>
        /\ app.user # Null <=> (app.token # Null /\ app.userData # Null)
        /\ app.user = Null => <<app.path, app.page>> \in {<<"/login", "Login">>, <<"/signup", "Signup">>}
  /\ app.page \in {"Dashboard", "StudyStyleQuiz", "StressCheck", "GenieGuide", "NovaChat",
                   "SupportCoach", "Rehab"} =>
        ~app.loading /\ app.user \notin {Null, Undefined}

\* C24 witness: the second user, logged in, is on the rehab page with a
\* breathing round done.
C24_Witness ==
  /\ app.page = "Rehab" /\ Field(app.user, "username") = Str("user2")
  /\ app.token = Str("jwt.2") /\ timer.cycle = 1


C26_AnswerByMessageAlone ==
  (req.route = "chat" /\ req.pc = "done" /\ AllCallsFailed) =>
    req.response =
      Obj(<<<<"answer",
              Str(generateSmartResponse(ChatPrompt(<<>>, Field(req.body, "message"))))>>>>)


(***************************************************************************)
(* C29: POST /ai/chat when reading the history fails.                      *)
(***************************************************************************)
\* C29: a chat request of a user who has rows stored, and whose read of the
\* history failed, goes on with the prompt of an empty history (context 'No
\* recent activity available.') and is answered 200 with an answer.
C29_FailedReadIsEmptyHistory ==
  (/\ req.route = "chat" /\ req.pc # "idle" /\ req.context = <<>>
   /\ \E j \in 1..(Len(history) - (IF req.saved THEN 1 ELSE 0)) :
         history[j].user_id = req.user) =>
    /\ req.prompt = ChatPrompt(<<>>, Field(req.body, "message"))
    /\ includes(req.prompt, "No recent activity available.")
    /\ req.pc = "done" =>
          /\ req.status = 200
          /\ IsStr(Field(req.response, "answer")) /\ Field(req.response, "answer").v # ""

\* C29 witness: the second user, whose stress check is stored, asked; the read
\* failed and the request was answered 200.
C29_Witness ==
  /\ req.route = "chat" /\ req.pc = "done" /\ req.user = 2 /\ req.context = <<>>
  /\ Len(history) = 2 /\ history[1].user_id = 2 /\ history[1].feature_name = "stress"
  /\ req.saved /\ req.status = 200 /\ req.prompt = ChatPrompt(<<>>, Field(req.body, "message"))


(***************************************************************************)
(* C30: an AI route when writing its history record fails.                 *)
(***************************************************************************)
\* C30: the step of a request from `await saveHistory` to its response sends
\* 200 with the feature response the handler held before the write, whether
\* the write succeeds or fails; saveHistory is called once, and a failed write
\* leaves the table as it was.
C30_FailedWriteSameResponse ==
  [][req.pc = "save" =>
       /\ req'.pc = "done"
       /\ req'.sent = <<[status |-> 200, body |-> req.response]>>
       /\ Len(req'.saves) = 1
       /\ req'.saved \/ history' = history]_vars

\* C30 witness: a chat request was answered 200 with its answer although the
\* INSERT failed, after one call of saveHistory.
C30_Witness ==
  /\ req.pc = "done" /\ req.route = "chat" /\ ~req.saved /\ history = <<>>
  /\ req.sent = <<[status |-> 200, body |-> Obj(<<<<"answer", Str(req.content)>>>>)]>>
  /\ Len(req.saves) = 1


(***************************************************************************)
(* POST /auth/signup (backend/server.js 101-130) over the users table of   *)
(* database/init.sql, with several requests being served at once.          *)
(***************************************************************************)
SignupBodies ==
  {Obj(<<<<"username", Str("ann")>>, <<"password", Str("pw1")>>>>),
   Obj(<<<<"username", Str("ann")>>, <<"password", Str("pw2")>>>>),
   Obj(<<<<"username", Str("bob")>>, <<"password", Str("pw1")>>>>),
   Obj(<<<<"username", Str("bob")>>>>)}

\* request i arrives and its handler runs to `await pool.query('SELECT ...')`
SignupArrives(i, body) ==
  /\ signup.reqs[i].pc = "idle"
  /\ signup' =
       IF ~Truthy(Field(body, "username")) \/ ~Truthy(Field(body, "password"))
         THEN [signup EXCEPT !.reqs[i] =
                 [pc |-> "done", username |-> Undefined, password |-> Undefined, status |-> 400,
                  body |-> Obj(<<<<"error", Str("Username and password required")>>>>)]]
         ELSE [signup EXCEPT !.reqs[i].pc = "select",
                             !.reqs[i].username = Field(body, "username"),
                             !.reqs[i].password = Field(body, "password")]
  /\ UNCHANGED <<client, hasHuggingFace, hasOpenAI, history, req, dreq, mock, pcall, orc, timer, app, auth>>

\* the SELECT of request i resolves: 400 when a row has the username, else the
\* handler goes on to bcrypt.hash and the INSERT
SignupSelects(i) ==
  /\ signup.reqs[i].pc = "select"
  /\ signup' =
       IF \E k \in 1..Len(signup.users) : Str(signup.users[k].username) = signup.reqs[i].username
         THEN [signup EXCEPT !.reqs[i].pc = "done", !.reqs[i].status = 400,
                             !.reqs[i].body = Obj(<<<<"error", Str("Username already exists")>>>>)]
         ELSE [signup EXCEPT !.reqs[i].pc = "insert"]
  /\ UNCHANGED <<client, hasHuggingFace, hasOpenAI, history, req, dreq, mock, pcall, orc, timer, app, auth>>

\* the INSERT of request i settles: the row and 201, or the violation of
\* UNIQUE(username), which the handler's catch answers with 500; the id sequence
\* moves either way, and a bcrypt hash is written as its prefix and the password
SignupInserts(i) ==
  /\ signup.reqs[i].pc = "insert"
  /\ signup' =
       IF \E k \in 1..Len(signup.users) : Str(signup.users[k].username) = signup.reqs[i].username
         THEN [signup EXCEPT !.seq = @ + 1,
                             !.reqs[i].pc = "done", !.reqs[i].status = 500,
                             !.reqs[i].body = InternalServerError]
         ELSE [signup EXCEPT
                 !.seq = @ + 1,
                 !.users = Append(@, [id |-> signup.seq + 1,
                                      username |-> signup.reqs[i].username.v,
                                      password_hash |-> "$2b$10$" \o ToText(signup.reqs[i].password)]),
                 !.reqs[i].pc = "done", !.reqs[i].status = 201,
                 !.reqs[i].body =
                   Obj(<<<<"token", Str("jwt." \o ToString(signup.seq + 1))>>,
                         <<"user", Obj(<<<<"id", Str(ToString(signup.seq + 1))>>,
                                         <<"username", signup.reqs[i].username>>>>)>>>>)]
  /\ UNCHANGED <<client, hasHuggingFace, hasOpenAI, history, req, dreq, mock, pcall, orc, timer, app, auth>>

NextSignup ==
  \/ \E i \in 1..NumSignups, body \in SignupBodies : SignupArrives(i, body)
  \/ \E i \in 1..NumSignups : SignupSelects(i)
  \/ \E i \in 1..NumSignups : SignupInserts(i)

SpecSignup == InitClient /\ [][NextSignup]_vars

(***************************************************************************)
(* C27: concurrent signups with one username.                              *)
(***************************************************************************)
\* C27: of the signup requests that carry one username (and a password), one
\* is answered 201 and creates the user, and each other one is answered 400
\* 'Username already exists' and creates none: an answered request has one of
\* these two answers, the users table holds one row per 201, at most one per
\* username, and once all are answered one of them was answered 201.
C27_OneSignupPerUsername ==
  LET said(i) == signup.reqs[i].pc = "done" /\ signup.reqs[i].username # Undefined
      created(u) == {i \in 1..NumSignups : said(i) /\ signup.reqs[i].username = Str(u)
                                             /\ signup.reqs[i].status = 201}
  IN  /\ \A i \in 1..NumSignups :
            said(i) =>
              \/ signup.reqs[i].status = 201
              \/ /\ signup.reqs[i].status = 400
                 /\ signup.reqs[i].body = Obj(<<<<"error", Str("Username already exists")>>>>)
      /\ \A u \in {"ann", "bob"} :
            /\ Cardinality(created(u)) <= 1
            /\ Cardinality({k \in 1..Len(signup.users) : signup.users[k].username = u})
                 = Cardinality(created(u))
            /\ (/\ \A i \in 1..NumSignups : signup.reqs[i].pc = "done"
                /\ \E i \in 1..NumSignups : signup.reqs[i].username = Str(u)) =>
                 Cardinality(created(u)) = 1


(***************************************************************************)
(* The middleware in front of GET /history and the /ai/* routes            *)
(* (backend/server.js 54-69, 164, 179-374): what the request carried is    *)
(* fixed when it arrives. A token that jwt.verify accepts is written as a  *)
(* record of the secret it was signed with and the userId of its payload.  *)
(***************************************************************************)
RequestTokens ==
  {Undefined, Str("not.a.jwt"), [k |-> "jwt", secret |-> "another secret", userId |-> 1]}
    \cup {[k |-> "jwt", secret |-> "JWT_SECRET", userId |-> u] : u \in Users}

\* authenticateToken: the answer it sends, or status 0 and the user of next()
authenticateToken(token) ==
  IF ~Truthy(token)
    THEN [status |-> 401, body |-> Obj(<<<<"error", Str("Access token required")>>>>),
          userId |-> 0]
  ELSE IF token.k # "jwt" \/ token.secret # "JWT_SECRET"
    THEN [status |-> 403, body |-> Obj(<<<<"error", Str("Invalid token")>>>>), userId |-> 0]
  ELSE [status |-> 0, body |-> Undefined, userId |-> token.userId]

\* upload.single('image'), which POST /ai/image-analyze runs before
\* authenticateToken, fails (a file over 5 MB, an unexpected field) and Express
\* answers 500 in its default error handler
UploadFails ==
  /\ req.pc = "idle" /\ auth.upload = "error"
  /\ req' = Send([Idle EXCEPT !.route = "image-analyze"], 500, Str("MulterError"))
  /\ UNCHANGED <<client, hasHuggingFace, hasOpenAI, history, dreq, mock, pcall, orc, timer, app, signup, auth>>

\* authenticateToken answers the request to route itself
TokenRejected(route) ==
  /\ req.pc = "idle" /\ authenticateToken(auth.token).status # 0
  /\ route = "image-analyze" => auth.upload # "error"
  /\ req' = Send([Idle EXCEPT !.route = route], authenticateToken(auth.token).status,
                 authenticateToken(auth.token).body)
  /\ UNCHANGED <<client, hasHuggingFace, hasOpenAI, history, dreq, mock, pcall, orc, timer, app, signup, auth>>

InitAuth ==
  /\ client = PuterClientNew
  /\ hasHuggingFace \in BOOLEAN
  /\ hasOpenAI = FALSE
  /\ history \in {<<>>, FirstRow("study-style", 1, Obj(<<>>))}
  /\ req = Idle
  /\ dreq = Idle
  /\ mock = <<>>
  /\ pcall = NoCall
  /\ orc = NoOpenRouter
  /\ timer = BreathingTimerNew
  /\ app = AppNew
  /\ signup = NoSignups
  /\ auth \in [token : RequestTokens, upload : {"none", "file", "error"}]

NextAuth ==
  \/ UploadFails
  \/ \E route \in Routes \cup {"history"} : TokenRejected(route)
  \/ \E route \in Routes, queryOk \in BOOLEAN :
       /\ authenticateToken(auth.token).status = 0
       /\ route = "image-analyze" => auth.upload # "error"
       /\ route # "chat" => queryOk
       /\ Receive(route, authenticateToken(auth.token).userId,
                  CHOOSE body \in RequestBodies(route) : TRUE,
                  IF route = "image-analyze" /\ auth.upload = "file" THEN ImageFile ELSE Undefined,
                  queryOk)
  \/ \E queryOk \in BOOLEAN :
       /\ authenticateToken(auth.token).status = 0
       /\ GetHistory(authenticateToken(auth.token).userId, queryOk)
  \/ EndpointFails("network")
  \/ \E data \in {Null, Str(PlainText)} : EndpointAnswers(data)
  \/ HuggingFaceFails("network")
  \/ \E data \in HuggingFaceBodies : HuggingFaceAnswers(data)
  \/ \E insertOk \in BOOLEAN : SaveAndRespond(insertOk)

SpecAuth == InitAuth /\ [][NextAuth]_vars

(***************************************************************************)
(* C28: requests without a token that verifies under JWT_SECRET.           *)
(***************************************************************************)
\* C28: a request to GET /history or an /ai/* route whose token is missing or
\* does not verify under JWT_SECRET is answered 401 when it carries no token
\* and 403 when its token is invalid, and its handler does not run: no history
\* read, no prompt, no provider call, no saveHistory call.
C28_NoHandlerWithoutToken ==
  (/\ req.pc # "idle"
   /\ auth.token \notin {[k |-> "jwt", secret |-> "JWT_SECRET", userId |-> u] : u \in Users}) =>
    /\ req.pc = "done"
    /\ req.status = IF auth.token = Undefined THEN 401 ELSE 403
    /\ req.user = 0 /\ req.context = <<>> /\ req.prompt = "" /\ req.ep = 0
    /\ req.source = "none" /\ req.saves = <<>>

=============================================================================
